---- MODULE Spec2Model ----
(***************************************************************************)
(* Verification model of opencode-mem: the auto-capture service and its    *)
(* capture runs (AutoCaptureService, performAutoCapture) and the bounded   *)
(* tool-call extraction loop (OpenAIChatCompletionProvider).               *)
(***************************************************************************)
EXTENDS Integers, Sequences, FiniteSets, TLC

(***************************************************************************)
(* Bounds of the model.                                                    *)
(***************************************************************************)
\* buffered entries (messages + tools + file edits) explored per session
MaxActivity == 1
\* recorded items per buffer when the service is driven on its own
MaxBuffered == 2
\* the clock (Date.now()) runs over 0..MaxTime
MaxTime == 1
\* onSessionIdle is explored until iterationCount reaches threshold + IterSlack
IterSlack == 1
\* performAutoCapture calls explored in one behaviour
MaxRuns == 2
\* memory entries in one model reply
MaxEntries == 2
\* executeToolCall calls explored on one AI session
MaxCalls == 2

Sessions == {"s1", "s2"}
Roles == {"user", "assistant"}
ToolNames == {"bash"}

\* (autoCaptureThreshold, autoCaptureTimeThreshold) pairs the service is built with
ServiceConfigs ==
  { [threshold |-> 5, timeThreshold |-> 0],
    [threshold |-> 2, timeThreshold |-> 1] }

VARIABLES
  enabled,        \* AutoCaptureService.enabled
  threshold,      \* AutoCaptureService.threshold
  timeThreshold,  \* AutoCaptureService.timeThreshold
  buffers,        \* AutoCaptureService.buffers: Map<sessionID, CaptureBuffer>
  capturing,      \* AutoCaptureService.capturing: Set<sessionID>
  now,            \* Date.now()
  idleResult,     \* the value the last onSessionIdle call returned
  mode,           \* how summarizeWithAI reaches a model: "external", "session", "noclient"
  maxMemories,    \* CONFIG.autoCaptureMaxMemories
  runs,           \* the performAutoCapture calls: position and locals of each
  store,          \* the vector table: how many rows hold each memory entry
  configMaxIterations, \* this.config.maxIterations: << >> when unset, else <<n>>
  aiSession,      \* whether aiSessionManager holds the "openai-chat" session of the id
  aiMessages,     \* the messages aiSessionManager persists for that session, in order
  aiSequences,    \* the sequence numbers those messages were stored under, in order
  toolCall,       \* the executeToolCall call: position and locals
  toolResult,     \* the ToolCallResult the last executeToolCall call returned
  calls,          \* executeToolCall calls made so far
  data,           \* the argument of UserProfileValidator.validate
  validation,     \* the ValidationResult validate returned for it
  table,          \* the "memories" table: how many rows hold each record
  draws,          \* how many ids addMemory has generated (Math.random draws)
  updates,        \* the handleUpdateMemory calls: position and locals of each
  reply,          \* what the last call on the memory client returned
  deleted,        \* the ids of records for which a deleteMemory call of a client has
                  \* reported success
  service,        \* the EmbeddingService instance: its fields
  config,         \* CONFIG: embeddingModel, and whether embeddingApiUrl and -Key are set
  promises,       \* the promises initializeModel has returned: the status of each
  embeds,         \* the warmup and embed calls in flight: position and locals of each
  backendCalls,   \* how often a backend (pipeline or embeddings endpoint) was invoked
  lastStep,       \* the last step of the embedding service
  changes,        \* how often CONFIG was changed
  client,         \* the LocalMemoryClient instance: isConnected and initPromise
  inits,          \* the promises initialize has created: the status of each
  waits,          \* the initialize calls: position and locals of each
  connections,    \* ConnectionManager.connections: Map<dbPath, Database>
  dbs,            \* the Database objects created so far: path, and whether open
  handle          \* what the last getConnection call returned

svcVars == <<enabled, threshold, timeThreshold, buffers, capturing, now, idleResult>>
runVars == <<mode, maxMemories, runs, store>>
toolVars == <<configMaxIterations, aiSession, aiMessages, aiSequences, toolCall, toolResult, calls>>
valVars == <<data, validation>>
memVars == <<table, draws, updates, reply, deleted>>
embVars == <<service, config, promises, embeds, backendCalls, lastStep, changes>>
cliVars == <<client, inits, waits>>
connVars == <<connections, dbs, handle>>
auxVars == <<cliVars, connVars>>
engineVars == <<valVars, memVars, embVars, auxVars>>
vars == <<svcVars, runVars, toolVars, engineVars>>

\* the extraction provider before any executeToolCall call
NoToolCall == [ pc |-> "idle", iterations |-> 0, requests |-> 0, replies |-> << >>, base |-> 0 ]

NoToolResult == [ success |-> FALSE, error |-> "none", iterations |-> 0 ]

ToolIdle ==
  /\ configMaxIterations = << >>
  /\ aiSession = FALSE
  /\ aiMessages = << >>
  /\ aiSequences = << >>
  /\ toolCall = NoToolCall
  /\ toolResult = NoToolResult
  /\ calls = 0

\* a JavaScript value: t its kind, a the text of a boolean, number or string,
\* e the elements of an array, f the fields of an object by key
JsValue(t, a, e, f) == [ t |-> t, a |-> a, e |-> e, f |-> f ]

Undefined == JsValue("undefined", "", << >>, << >>)

\* no validate call made yet
NoValidation == [ called |-> FALSE, valid |-> FALSE, errors |-> << >> ]

ValidatorIdle ==
  /\ data = Undefined
  /\ validation = NoValidation

\* handleUpdateMemory calls explored at once
MaxUpdaters == 2

Updaters == 1..MaxUpdaters

NoUpdate == [ pc |-> "idle", id |-> << >>, content |-> "", memory |-> << >> ]

\* the last LocalMemoryClient call: its arguments (query: of a search) and result
NoReply ==
  [ op |-> "none", arg |-> << >>, query |-> "", success |-> FALSE, error |-> "",
    thrown |-> FALSE, items |-> << >>, dynamic |-> << >> ]

MemoryIdle ==
  /\ table = << >>
  /\ draws = 0
  /\ updates = [u \in Updaters |-> NoUpdate]
  /\ reply = NoReply
  /\ deleted = {}

\* embed and warmup calls explored at once
MaxCallers == 2

Callers == 1..MaxCallers

\* a caller that has made no call
NoEmbedCall ==
  [ pc |-> "idle", op |-> "none", text |-> "", awaits |-> 0, backend |-> "none",
    model |-> "", changed |-> FALSE, timed |-> FALSE, timedOut |-> FALSE,
    outcome |-> "none", calls |-> 0 ]

\* new EmbeddingService(): 0 is the null initPromise, "" the null pipe and the
\* null cachedModelName
NewService ==
  [ isWarmedUp |-> FALSE, initPromise |-> 0, pipe |-> "", cache |-> << >>,
    cachedModelName |-> "" ]

NoEvent ==
  [ kind |-> "other", text |-> "", vector |-> << >>, hit |-> FALSE, changed |-> FALSE,
    evicted |-> FALSE ]

EmbeddingIdle ==
  /\ service = NewService
  /\ config = [embeddingModel |-> "m1", api |-> FALSE]
  /\ promises = << >>
  /\ embeds = [c \in Callers |-> NoEmbedCall]
  /\ backendCalls = 0
  /\ lastStep = NoEvent
  /\ changes = 0

\* initialize calls explored at once, and in all
MaxWaiters == 2

Waiters == 1..MaxWaiters

NoWait == [ pc |-> "idle", awaits |-> 0, outcome |-> "none", calls |-> 0 ]

NewClient == [ isConnected |-> FALSE, initPromise |-> 0 ]

ClientIdle ==
  /\ client = NewClient
  /\ inits = << >>
  /\ waits = [w \in Waiters |-> NoWait]

\* no Database was returned: the call threw, or none was made
NoHandle == 0

ConnectionsIdle ==
  /\ connections = << >>
  /\ dbs = << >>
  /\ handle = NoHandle

AuxIdle ==
  /\ ClientIdle
  /\ ConnectionsIdle

EngineIdle ==
  /\ ValidatorIdle
  /\ MemoryIdle
  /\ EmbeddingIdle
  /\ AuxIdle

(***************************************************************************)
(* AutoCaptureService                                                      *)
(***************************************************************************)
NewBuffer(s, t) ==
  [ sessionID |-> s, iterationCount |-> 0, messages |-> <<>>, tools |-> <<>>,
    lastCaptureTime |-> t, fileEdits |-> 0 ]

HasBuffer(s) == s \in DOMAIN buffers

getOrCreateBuffer(s) ==
  IF ~HasBuffer(s) THEN buffers @@ (s :> NewBuffer(s, now)) ELSE buffers

\* IdleGuard without the early return for a capturing session
IdleGuardIgnoresCapturing(s) == enabled

\* onSessionIdle: the two early returns
IdleGuard(s) == enabled /\ s \notin capturing

\* onSessionIdle: buffer.iterationCount++
IdleBuffers(s) == [getOrCreateBuffer(s) EXCEPT ![s].iterationCount = @ + 1]

\* IdleEligible with > for >= in iterationMet
IdleEligibleStrict(b) ==
  LET timeSinceCapture == now - b.lastCaptureTime
      iterationMet == b.iterationCount > threshold
      timeMet == timeThreshold > 0 /\ timeSinceCapture >= timeThreshold
  IN  iterationMet \/ timeMet

\* onSessionIdle: iterationMet || timeMet, on the incremented buffer b
IdleEligible(b) ==
  LET timeSinceCapture == now - b.lastCaptureTime
      iterationMet == b.iterationCount >= threshold
      timeMet == timeThreshold > 0 /\ timeSinceCapture >= timeThreshold
  IN  iterationMet \/ timeMet

\* the value onSessionIdle(s) returns in the current state
IdleReturn(s) == IF IdleGuard(s) THEN IdleEligible(IdleBuffers(s)[s]) ELSE FALSE

\* the effect of onSessionIdle(s) on the service
onSessionIdle(s) ==
  /\ buffers' = IF IdleGuard(s) THEN IdleBuffers(s) ELSE buffers
  /\ UNCHANGED <<enabled, threshold, timeThreshold, now>>

ActivityCount(b) == Len(b.messages) + Len(b.tools) + b.fileEdits

ActivityRoom(s) == HasBuffer(s) => ActivityCount(buffers[s]) < MaxActivity

\* addMessage without the early return of a disabled service
AddMessageWhileDisabled(s, role, content) ==
  [getOrCreateBuffer(s) EXCEPT
     ![s].messages = Append(@, [role |-> role, content |-> content])]

AddMessageBuffers(s, role, content) ==
  IF ~enabled THEN buffers
  ELSE [getOrCreateBuffer(s) EXCEPT
          ![s].messages = Append(@, [role |-> role, content |-> content])]

AddToolBuffers(s, name) ==
  IF ~enabled THEN buffers
  ELSE [getOrCreateBuffer(s) EXCEPT
          ![s].tools = Append(@, [name |-> name])]

OnFileEditBuffers(s) ==
  IF ~enabled THEN buffers
  ELSE [getOrCreateBuffer(s) EXCEPT ![s].fileEdits = @ + 1]

ClearBufferBuffers(s) ==
  IF HasBuffer(s) THEN [buffers EXCEPT ![s] = NewBuffer(s, now)] ELSE buffers

\* clearBuffer without this.capturing.delete
ClearBufferKeepsFlag(s) == capturing

ClearBufferCapturing(s) == capturing \ {s}

\* cleanup that drops every session's buffer
CleanupEveryBuffer(s) == << >>

CleanupBuffers(s) == [x \in DOMAIN buffers \ {s} |-> buffers[x]]

CleanupCapturing(s) == capturing \ {s}

MarkCapturingSet(s) == capturing \cup {s}

(***************************************************************************)
(* performAutoCapture                                                      *)
(***************************************************************************)
Runs == 1..MaxRuns

\* a memory entry of the reply: "ok" has summary, scope and type; "bad" lacks one
EntryKinds == {"ok", "bad"}

EntryLists == UNION { [1..n -> EntryKinds] : n \in 0..MaxEntries }

\* fallback: length of the fallback entry's summary, 0 when the entries were parsed;
\* late: whether the prompt the run built holds an item marked LateContent
NoRun ==
  [ pc |-> "idle", session |-> "none", entries |-> <<>>, idx |-> 0, results |-> 0,
    fallback |-> 0, exit |-> "none", late |-> FALSE ]

InFlight(r) == runs[r].pc \notin {"idle", "done"}

\* parsed.memories.slice(0, CONFIG.autoCaptureMaxMemories)
Sliced(entries) == SubSeq(entries, 1, IF Len(entries) < maxMemories THEN Len(entries) ELSE maxMemories)

\* the loop's next entry at or after position i that is not skipped as invalid; 0 when none
NextValid(entries, i) ==
  LET cand == { k \in i..Len(Sliced(entries)) : Sliced(entries)[k] = "ok" }
  IN  IF cand = {} THEN 0 ELSE CHOOSE k \in cand : \A j \in cand : k <= j

\* Finish with the catch block's clearBuffer call left out
FinishCatchForgetsClear(r, run, how) ==
  /\ buffers' = IF how = "error" THEN buffers ELSE ClearBufferBuffers(run.session)
  /\ capturing' = IF how = "error" THEN capturing ELSE ClearBufferCapturing(run.session)
  /\ runs' = [runs EXCEPT ![r] = [NoRun EXCEPT !.pc = "done", !.session = run.session,
                                               !.exit = how]]

\* service.clearBuffer(sessionID); return -- the run, left as `run`, ends by path `how`
Finish(r, run, how) ==
  /\ buffers' = ClearBufferBuffers(run.session)
  /\ capturing' = ClearBufferCapturing(run.session)
  /\ runs' = [runs EXCEPT ![r] = [NoRun EXCEPT !.pc = "done", !.session = run.session,
                                               !.exit = how]]

\* a throw inside the try block: the catch block awaits the error toast
Caught(r) ==
  /\ runs' = [runs EXCEPT ![r] = [NoRun EXCEPT !.pc = "toastErr", !.session = runs[r].session,
                                               !.late = runs[r].late]]
  /\ UNCHANGED <<buffers, capturing>>

\* the content, and the tool name, of the items a test marks as recorded late
LateContent == "late"

\* getSummaryPrompt: the prompt lists the content of every buffered message and
\* the name of every buffered tool (not the file edits); whether it holds a
\* marked item
PromptHasLate(s) ==
  /\ HasBuffer(s)
  /\ \/ \E i \in 1..Len(buffers[s].messages) : buffers[s].messages[i].content = LateContent
     \/ \E i \in 1..Len(buffers[s].tools) : buffers[s].tools[i].name = LateContent

\* the for loop from position run.idx on, up to its next await (addMemory),
\* or past its end: the results.length === 0 return, or the success toast
LoopStep(r, run) ==
  LET k == NextValid(run.entries, run.idx) IN
  IF k # 0
  THEN /\ runs' = [runs EXCEPT ![r] = [run EXCEPT !.pc = "save", !.idx = k]]
       /\ UNCHANGED <<buffers, capturing>>
  ELSE IF run.results = 0
  THEN Finish(r, [run EXCEPT !.idx = 0], "nosaved")
  ELSE /\ runs' = [runs EXCEPT ![r] = [run EXCEPT !.pc = "toast2", !.idx = 0, !.entries = <<>>,
                                                   !.fallback = 0]]
       /\ UNCHANGED <<buffers, capturing>>

\* performAutoCapture up to its first await: markCapturing, then the "Analyzing" toast
StartCapture(r, s) ==
  /\ runs[r].pc = "idle"
  /\ \A q \in Runs : q < r => runs[q].pc # "idle"
  /\ capturing' = MarkCapturingSet(s)
  /\ runs' = [runs EXCEPT ![r] = [NoRun EXCEPT !.pc = "toast1", !.session = s]]

\* the first toast settled: getSummaryPrompt, then summarizeWithAI is called
AfterToast(r) ==
  /\ runs[r].pc = "toast1"
  /\ IF ~HasBuffer(runs[r].session)
     THEN Finish(r, runs[r], "nocontent")
     ELSE IF mode = "noclient"
     THEN /\ runs' = [runs EXCEPT ![r] = [NoRun EXCEPT !.pc = "toastErr",
                                                       !.session = runs[r].session,
                                                       !.late = PromptHasLate(runs[r].session)]]
          /\ UNCHANGED <<buffers, capturing>>
     ELSE /\ runs' = [runs EXCEPT ![r] = [@ EXCEPT !.pc = "awaitModel",
                                                   !.late = PromptHasLate(runs[r].session)]]
          /\ UNCHANGED <<buffers, capturing>>
  /\ UNCHANGED <<enabled, threshold, timeThreshold, now, idleResult, mode, maxMemories, store, toolVars, engineVars>>

ReplyKinds == {"empty", "unparsable", "json"}

FallbackLimit == 500

\* lengths of the raw replies that fail to parse: short, and longer than the limit
RawLengths == {1, FallbackLimit + 1}

\* a raw reply of n characters, each character named by its position
RawReply(n) == [i \in 1..n |-> i]

\* response.substring(0, 500)
FallbackSummary(raw) ==
  SubSeq(raw, 1, IF Len(raw) < FallbackLimit THEN Len(raw) ELSE FallbackLimit)

\* summarizeWithAI returned `response`: the empty-reply throw, the JSON.parse
\* fallback to one entry (summary, scope "project", type "conversation": a
\* valid entry), or the parsed memories
ModelReplies(r, kind, entries) ==
  LET run == runs[r] IN
  CASE kind = "empty"      -> Caught(r)
    [] kind = "unparsable" ->
         \E n \in RawLengths :
           LoopStep(r, [run EXCEPT !.entries = <<"ok">>, !.idx = 1,
                                   !.fallback = Len(FallbackSummary(RawReply(n)))])
    [] kind = "json"       -> LoopStep(r, [run EXCEPT !.entries = entries, !.idx = 1])

\* callExternalAPI settles: a reply, or a throw (bad status, network failure,
\* malformed body, or the abort its 30 s timer fires)
ExternalSettles(r) ==
  /\ runs[r].pc = "awaitModel"
  /\ mode = "external"
  /\ \/ \E kind \in ReplyKinds, entries \in EntryLists :
          /\ kind # "json" => entries = <<>>
          /\ ModelReplies(r, kind, entries)
     \/ Caught(r)
  /\ UNCHANGED <<enabled, threshold, timeThreshold, now, idleResult, mode, maxMemories, store, toolVars, engineVars>>

\* callSessionModel settles: a reply or a failure; nothing bounds the wait
SessionSettles(r) ==
  /\ runs[r].pc = "awaitModel"
  /\ mode = "session"
  /\ \/ \E kind \in ReplyKinds, entries \in EntryLists :
          /\ kind # "json" => entries = <<>>
          /\ ModelReplies(r, kind, entries)
     \/ Caught(r)
  /\ UNCHANGED <<enabled, threshold, timeThreshold, now, idleResult, mode, maxMemories, store, toolVars, engineVars>>

\* memoryClient.addMemory returned: "ok" (row appended, success), "failed" (no
\* row, success false), "storedThenFailed" (table.add appended the row, then
\* refreshTable threw: success false)
AddMemoryOutcomes == {"ok", "failed", "storedThenFailed"}

\* the memory entry at position i of run r's reply
Entry(r, i) == <<r, i>>

StoredIn(st, e) == IF e \in DOMAIN st THEN st[e] ELSE 0

Stored(e) == StoredIn(store, e)

AddMemoryStore(r, outcome) ==
  IF outcome = "failed" THEN store
  ELSE LET e == Entry(r, runs[r].idx) IN
       [x \in DOMAIN store \cup {e} |-> IF x = e THEN Stored(e) + 1 ELSE store[x]]

AddMemorySettles(r) ==
  /\ runs[r].pc = "save"
  /\ \E outcome \in AddMemoryOutcomes :
       /\ store' = AddMemoryStore(r, outcome)
       /\ LoopStep(r, [runs[r] EXCEPT !.results = IF outcome = "ok" THEN @ + 1 ELSE @,
                                      !.idx = @ + 1])
  /\ UNCHANGED <<enabled, threshold, timeThreshold, now, idleResult, mode, maxMemories, toolVars, engineVars>>

\* the success toast settled: clearBuffer
AfterSuccessToast(r) ==
  /\ runs[r].pc = "toast2"
  /\ Finish(r, runs[r], "success")
  /\ UNCHANGED <<enabled, threshold, timeThreshold, now, idleResult, mode, maxMemories, store, toolVars, engineVars>>

\* the error toast settled: clearBuffer
AfterErrorToast(r) ==
  /\ runs[r].pc = "toastErr"
  /\ Finish(r, runs[r], "error")
  /\ UNCHANGED <<enabled, threshold, timeThreshold, now, idleResult, mode, maxMemories, store, toolVars, engineVars>>

(***************************************************************************)
(* The host: session events delivered to the plugin                        *)
(***************************************************************************)
\* session.idle: onSessionIdle, and performAutoCapture at once when it returns true
SessionIdleEvent(s) ==
  /\ onSessionIdle(s)
  /\ IF IdleReturn(s)
     THEN \E r \in Runs : StartCapture(r, s)
     ELSE UNCHANGED <<capturing, runs>>
  /\ UNCHANGED <<idleResult, mode, maxMemories, store, toolVars, engineVars>>

\* the three recording methods, at any buffer size
addMessage(s, role, content) ==
  /\ buffers' = AddMessageBuffers(s, role, content)
  /\ UNCHANGED <<enabled, threshold, timeThreshold, capturing, now, idleResult, runVars, toolVars, engineVars>>

addTool(s, name) ==
  /\ buffers' = AddToolBuffers(s, name)
  /\ UNCHANGED <<enabled, threshold, timeThreshold, capturing, now, idleResult, runVars, toolVars, engineVars>>

onFileEdit(s) ==
  /\ buffers' = OnFileEditBuffers(s)
  /\ UNCHANGED <<enabled, threshold, timeThreshold, capturing, now, idleResult, runVars, toolVars, engineVars>>

AddMessage(s, role, content) ==
  /\ ActivityRoom(s)
  /\ addMessage(s, role, content)

AddTool(s, name) ==
  /\ ActivityRoom(s)
  /\ addTool(s, name)

OnFileEdit(s) ==
  /\ ActivityRoom(s)
  /\ onFileEdit(s)

Cleanup(s) ==
  /\ buffers' = CleanupBuffers(s)
  /\ capturing' = CleanupCapturing(s)
  /\ UNCHANGED <<enabled, threshold, timeThreshold, now, idleResult, runVars, toolVars, engineVars>>

Toggle ==
  /\ enabled' = ~enabled
  /\ UNCHANGED <<threshold, timeThreshold, buffers, capturing, now, idleResult, runVars, toolVars, engineVars>>

Tick ==
  /\ now < MaxTime
  /\ now' = now + 1
  /\ UNCHANGED <<enabled, threshold, timeThreshold, buffers, capturing, idleResult, runVars, toolVars, engineVars>>

Contents == {"c1"}

\* (threshold, timeThreshold, model access, autoCaptureMaxMemories) of a capture deployment
CaptureConfigs ==
  { [threshold |-> 1, timeThreshold |-> 0, mode |-> "external", maxMemories |-> 1],
    [threshold |-> 2, timeThreshold |-> 0, mode |-> "session",  maxMemories |-> 2],
    [threshold |-> 1, timeThreshold |-> 0, mode |-> "noclient", maxMemories |-> 2] }

InitCapture ==
  /\ \E c \in CaptureConfigs :
       /\ threshold = c.threshold
       /\ timeThreshold = c.timeThreshold
       /\ mode = c.mode
       /\ maxMemories = c.maxMemories
  /\ enabled = TRUE
  /\ buffers = << >>
  /\ capturing = {}
  /\ now = 0
  /\ idleResult = FALSE
  /\ runs = [r \in Runs |-> NoRun]
  /\ store = << >>
  /\ ToolIdle
  /\ EngineIdle

\* the events of the sessions in S, and the steps of the capture runs
NextCaptureOf(S) ==
  \/ \E s \in S : SessionIdleEvent(s)
  \/ \E s \in S, role \in Roles, content \in Contents : AddMessage(s, role, content)
  \/ \E s \in S, name \in ToolNames : AddTool(s, name)
  \/ \E s \in S : OnFileEdit(s)
  \/ \E s \in S : Cleanup(s)
  \/ Toggle
  \/ \E r \in Runs : AfterToast(r)
  \/ \E r \in Runs : ExternalSettles(r)
  \/ \E r \in Runs : SessionSettles(r)
  \/ \E r \in Runs : AddMemorySettles(r)
  \/ \E r \in Runs : AfterSuccessToast(r)
  \/ \E r \in Runs : AfterErrorToast(r)

NextCapture == NextCaptureOf(Sessions)

SpecCapture == InitCapture /\ [][NextCapture]_vars

\* One session's capture runs under the scheduling the runtime guarantees: a
\* settled promise resumes its awaiter; the host's toast call and addMemory
\* return; callExternalAPI settles, by its abort timer at the latest.  Nothing
\* makes callSessionModel settle.
NextCaptureOne == NextCaptureOf({"s1"})

FairSpecCapture ==
  /\ InitCapture
  /\ [][NextCaptureOne]_vars
  /\ \A r \in Runs :
       /\ WF_vars(AfterToast(r))
       /\ WF_vars(ExternalSettles(r))
       /\ WF_vars(AddMemorySettles(r))
       /\ WF_vars(AfterSuccessToast(r))
       /\ WF_vars(AfterErrorToast(r))

(***************************************************************************)
(* Claims about the capture runs                                           *)
(***************************************************************************)
RunsInFlight(s) == { r \in Runs : InFlight(r) /\ runs[r].session = s }

BufferIsReset(b) ==
  /\ b.iterationCount = 0
  /\ b.messages = << >>
  /\ b.tools = << >>
  /\ b.fileEdits = 0

\* C1: at most one performAutoCapture run is in flight per session at any time.
C1_AtMostOneRunInFlight ==
  \A s \in Sessions : Cardinality(RunsInFlight(s)) <= 1

\* C2: the step that ends a performAutoCapture run, by whichever exit path,
\* leaves the run's session unflagged and any buffer it has fully reset.
C2_FinishedRunResetsSession ==
  [][ \A r \in Runs :
        (runs[r].pc # "done" /\ runs'[r].pc = "done") =>
          /\ runs[r].session \notin capturing'
          /\ runs[r].session \in DOMAIN buffers' =>
               BufferIsReset(buffers'[runs[r].session]) ]_vars

\* C2 witness: a run ended through the catch block, its session unflagged with
\* a reset buffer, while that session had already buffered activity to lose.
C2_Witness ==
  \E r \in Runs :
    /\ runs[r].pc = "done"
    /\ runs[r].exit = "error"
    /\ runs[r].session \notin capturing
    /\ HasBuffer(runs[r].session)
    /\ BufferIsReset(buffers[runs[r].session])

\* C3: a session flagged capturing is eventually unflagged.
C3_CapturingEventuallyClears ==
  \A s \in Sessions : (s \in capturing) ~> (s \notin capturing)

\* C6: every accepted memory entry is stored exactly once: when the addMemory
\* call for it has returned the table holds one row of it, and no entry ever
\* has two rows.
C6_AcceptedStoredExactlyOnce ==
  [][ /\ \A r \in Runs :
           (runs[r].pc = "save" /\ runs'[r] # runs[r]) =>
             StoredIn(store', Entry(r, runs[r].idx)) = 1
      /\ \A e \in DOMAIN store' : store'[e] <= 1 ]_vars

\* C11: a non-empty reply that does not parse as JSON holding a memories array
\* becomes exactly one fallback entry whose summary is the first 500 characters
\* of the reply, and that entry is persisted: when the addMemory call for it
\* has returned, the table holds one more row of it.
C11_FallbackEntryPersisted ==
  [][ \A r \in Runs :
        (runs[r].pc = "save" /\ runs[r].fallback > 0) =>
          /\ runs[r].entries = <<"ok">>
          /\ runs[r].idx = 1
          /\ runs[r].fallback <= FallbackLimit
          /\ runs'[r] # runs[r] =>
                StoredIn(store', Entry(r, 1)) = StoredIn(store, Entry(r, 1)) + 1 ]_vars

(***************************************************************************)
(* AutoCaptureService under any caller: its public methods in any order    *)
(***************************************************************************)
OnSessionIdleCall(s) ==
  /\ HasBuffer(s) => buffers[s].iterationCount < threshold + IterSlack
  /\ onSessionIdle(s)
  /\ idleResult' = IdleReturn(s)
  /\ UNCHANGED <<capturing, runVars, toolVars, engineVars>>

MarkCapturing(s) ==
  /\ capturing' = MarkCapturingSet(s)
  /\ UNCHANGED <<enabled, threshold, timeThreshold, buffers, now, idleResult, runVars, toolVars, engineVars>>

ClearBuffer(s) ==
  /\ buffers' = ClearBufferBuffers(s)
  /\ capturing' = ClearBufferCapturing(s)
  /\ UNCHANGED <<enabled, threshold, timeThreshold, now, idleResult, runVars, toolVars, engineVars>>

InitService ==
  /\ \E c \in ServiceConfigs :
       /\ threshold = c.threshold
       /\ timeThreshold = c.timeThreshold
  /\ enabled = TRUE
  /\ buffers = << >>
  /\ capturing = {}
  /\ now = 0
  /\ idleResult = FALSE
  /\ mode = "noclient"
  /\ maxMemories = 1
  /\ runs = [r \in Runs |-> NoRun]
  /\ store = << >>
  /\ ToolIdle
  /\ EngineIdle

NextServiceOf(S) ==
  \/ \E s \in S : OnSessionIdleCall(s)
  \/ \E s \in S, role \in Roles, content \in Contents : AddMessage(s, role, content)
  \/ \E s \in S, name \in ToolNames : AddTool(s, name)
  \/ \E s \in S : OnFileEdit(s)
  \/ \E s \in S : MarkCapturing(s)
  \/ \E s \in S : ClearBuffer(s)
  \/ \E s \in S : Cleanup(s)
  \/ Toggle
  \/ Tick

NextService == NextServiceOf(Sessions)

SpecService == InitService /\ [][NextService]_vars

\* the service driven for a single session
NextServiceOne == NextServiceOf({"s1"})

SpecServiceOne == InitService /\ [][NextServiceOne]_vars

(***************************************************************************)
(* AutoCaptureService with buffers of up to MaxBuffered recorded items     *)
(***************************************************************************)
BufferRoom(s) == HasBuffer(s) => ActivityCount(buffers[s]) < MaxBuffered

RecordMessage(s, role, content) ==
  /\ BufferRoom(s)
  /\ addMessage(s, role, content)

RecordTool(s, name) ==
  /\ BufferRoom(s)
  /\ addTool(s, name)

RecordFileEdit(s) ==
  /\ BufferRoom(s)
  /\ onFileEdit(s)

InitBuffers ==
  /\ threshold = 1
  /\ timeThreshold = 1
  /\ enabled = TRUE
  /\ buffers = << >>
  /\ capturing = {}
  /\ now = 0
  /\ idleResult = FALSE
  /\ mode = "noclient"
  /\ maxMemories = 1
  /\ runs = [r \in Runs |-> NoRun]
  /\ store = << >>
  /\ ToolIdle
  /\ EngineIdle

NextBuffers ==
  \/ \E s \in Sessions : OnSessionIdleCall(s)
  \/ \E s \in Sessions, role \in Roles, content \in Contents : RecordMessage(s, role, content)
  \/ \E s \in Sessions, name \in ToolNames : RecordTool(s, name)
  \/ \E s \in Sessions : RecordFileEdit(s)
  \/ \E s \in Sessions : MarkCapturing(s)
  \/ \E s \in Sessions : ClearBuffer(s)
  \/ \E s \in Sessions : Cleanup(s)
  \/ Toggle
  \/ Tick

SpecBuffers == InitBuffers /\ [][NextBuffers]_vars

(***************************************************************************)
(* Claims about onSessionIdle                                              *)
(***************************************************************************)
\* iterationCount of s's buffer in the map b, 0 when s has no buffer
CountIn(b, s) == IF s \in DOMAIN b THEN b[s].iterationCount ELSE 0

\* C4: onSessionIdle(s) returns true exactly when the feature is enabled, s is
\* not capturing, and the incremented iterationCount has reached the threshold
\* or the configured time threshold has elapsed since lastCaptureTime; with
\* threshold 5 and no time threshold, calls 1 to 4 return false and call 5 true.
C4_IdleReturnsEligibility ==
  [][ \A s \in Sessions :
        OnSessionIdleCall(s) =>
          /\ idleResult' <=>
               /\ enabled
               /\ s \notin capturing
               /\ \/ buffers'[s].iterationCount >= threshold
                  \/ /\ timeThreshold > 0
                     /\ now - buffers'[s].lastCaptureTime >= timeThreshold
          /\ (threshold = 5 /\ timeThreshold = 0 /\ enabled /\ s \notin capturing) =>
               /\ CountIn(buffers', s) \in 1..4 => ~idleResult'
               /\ CountIn(buffers', s) = 5 => idleResult' ]_vars

\* C4 witness: the fifth idle check of a session returned true under threshold 5
\* with the time threshold disabled.
C4_Witness ==
  /\ threshold = 5
  /\ timeThreshold = 0
  /\ idleResult
  /\ \E s \in Sessions : HasBuffer(s) /\ buffers[s].iterationCount = 5

\* C5 as claimed: every onSessionIdle(s) call, whatever it returns, raises the
\* iterationCount of s's buffer by exactly one.
C5_EveryIdleCallIncrements ==
  [][ \A s \in Sessions :
        OnSessionIdleCall(s) =>
          /\ s \in DOMAIN buffers'
          /\ CountIn(buffers', s) = CountIn(buffers, s) + 1 ]_vars

\* C5 amended: an onSessionIdle(s) call made while the feature is enabled and s
\* is not capturing raises iterationCount by exactly one (from 0 when it
\* creates the buffer); a call made while disabled or while s is capturing
\* leaves every buffer as it was.
C5_IdleCallIncrementsWhenGuardPasses ==
  [][ \A s \in Sessions :
        OnSessionIdleCall(s) =>
          IF enabled /\ s \notin capturing
          THEN /\ s \in DOMAIN buffers'
               /\ CountIn(buffers', s) = CountIn(buffers, s) + 1
          ELSE buffers' = buffers ]_vars

\* C5 witness: idle checks have counted up a session's buffer, and the session
\* is now capturing, so that further checks no longer count.
C5_Witness ==
  \E s \in Sessions :
    /\ HasBuffer(s)
    /\ buffers[s].iterationCount >= 2
    /\ s \in capturing
    /\ enabled

(***************************************************************************)
(* OpenAIChatCompletionProvider.executeToolCall                            *)
(***************************************************************************)
DefaultMaxIterations == 5

\* this.config.maxIterations ?? 5
maxIterations ==
  IF configMaxIterations = << >> THEN DefaultMaxIterations ELSE configMaxIterations[1]

SystemMsg == [ role |-> "system", content |-> "systemPrompt" ]
UserMsg == [ role |-> "user", content |-> "userPrompt" ]
AssistantMsg == [ role |-> "assistant", content |-> "reply" ]
RetryMsg == [ role |-> "user", content |-> "retryPrompt" ]

\* How one request settles.
\*   timeout        the abort timer fired: fetch rejects with an AbortError
\*   exception      anything else thrown in the try block before the reply is
\*                  stored: a network failure, an unreadable body, a choice
\*                  without a message
\*   badStatus      !response.ok
\*   noChoices      no data.choices[0]
\*   noToolCall     a message without tool_calls (or with an empty list)
\*   otherTool      tool_calls[0] names another function
\*   unparsableArgs the expected function, arguments that JSON.parse rejects
\*   schemaViolation the expected function, arguments the validator rejects
\*   valid          the expected function with valid arguments
TransportKinds == {"timeout", "exception", "badStatus", "noChoices"}
NonInvokingKinds == {"noToolCall", "otherTool"}
InvalidKinds == {"unparsableArgs", "schemaViolation"}
FetchKinds == TransportKinds \cup NonInvokingKinds \cup InvalidKinds \cup {"valid"}

Failure(error, iterations) == [ success |-> FALSE, error |-> error, iterations |-> iterations ]

Success(iterations) == [ success |-> TRUE, error |-> "none", iterations |-> iterations ]

\* return <result>
Return(call, result) ==
  /\ toolCall' = [call EXCEPT !.pc = "done"]
  /\ toolResult' = result

\* LoopHead with <= for < in the while test
LoopHeadOffByOne(call) ==
  IF call.iterations <= maxIterations
  THEN /\ toolCall' = [call EXCEPT !.pc = "awaitFetch", !.iterations = @ + 1,
                                   !.requests = @ + 1]
       /\ toolResult' = toolResult
  ELSE Return(call, Failure("exhausted", call.iterations))

\* the while test, and the loop body up to its await of fetch
LoopHead(call) ==
  IF call.iterations < maxIterations
  THEN /\ toolCall' = [call EXCEPT !.pc = "awaitFetch", !.iterations = @ + 1,
                                   !.requests = @ + 1]
       /\ toolResult' = toolResult
  ELSE Return(call, Failure("exhausted", call.iterations))

\* TransportError without the AbortError test of the catch block
TransportErrorNoAbortTest(kind) ==
  CASE kind = "timeout"   -> "exception"
    [] kind = "exception" -> "exception"
    [] kind = "badStatus" -> "apiError"
    [] kind = "noChoices" -> "invalidFormat"

\* the error a failed request returns: "API request timeout (..ms)",
\* String(error), "API error: <status> - <text>", "Invalid API response format"
TransportError(kind) ==
  CASE kind = "timeout"   -> "timeout"
    [] kind = "exception" -> "exception"
    [] kind = "badStatus" -> "apiError"
    [] kind = "noChoices" -> "invalidFormat"

\* aiSessionManager.getLastSequence: the highest sequence number stored for the
\* session, 0 when it has no message
getLastSequence(seqs) ==
  IF seqs = << >> THEN 0
  ELSE seqs[CHOOSE i \in 1..Len(seqs) : \A k \in 1..Len(seqs) : seqs[k] <= seqs[i]]

\* addMessage with sequence: getLastSequence(session.id) + 1
Sequenced(seqs) == Append(seqs, getLastSequence(seqs) + 1)

\* a history setup that stores the system prompt on every call
HistorySetupAlwaysSystem(msgs) == msgs \o << SystemMsg, UserMsg >>

\* the start of executeToolCall: the system prompt is stored when the session
\* has no message, then the user prompt
HistorySetup(msgs) ==
  (IF Len(msgs) = 0 THEN << SystemMsg >> ELSE msgs) \o << UserMsg >>

\* the assistant message is stored; then the tool_calls test on a reply of kind
\* `kind`: the result of validation is returned, or the retry prompt is stored
\* and the loop goes round
ReplyStored(call, kind) ==
  CASE kind = "valid" ->
         /\ aiMessages' = Append(aiMessages, AssistantMsg)
         /\ aiSequences' = Sequenced(aiSequences)
         /\ Return(call, Success(call.iterations))
    [] kind \in InvalidKinds ->
         /\ aiMessages' = Append(aiMessages, AssistantMsg)
         /\ aiSequences' = Sequenced(aiSequences)
         /\ Return(call, Failure("validation", call.iterations))
    [] kind \in NonInvokingKinds ->
         /\ aiMessages' = Append(aiMessages, AssistantMsg) \o << RetryMsg >>
         /\ aiSequences' = Sequenced(Sequenced(aiSequences))
         /\ LoopHead(call)

\* executeToolCall from its entry to the first await
ExecuteToolCall ==
  /\ toolCall.pc \in {"idle", "done"}
  /\ calls < MaxCalls
  /\ calls' = calls + 1
  /\ aiSession' = TRUE
  /\ aiMessages' = HistorySetup(aiMessages)
  /\ aiSequences' = (IF Len(HistorySetup(aiMessages)) = Len(aiMessages) + 1
                       THEN Sequenced(aiSequences)
                       ELSE Sequenced(Sequenced(aiSequences)))
  /\ LoopHead([NoToolCall EXCEPT !.base = Len(aiMessages') - 1])
  /\ UNCHANGED <<configMaxIterations, svcVars, runVars, engineVars>>

\* the awaited request settles, and the call runs to its next await or its return
FetchSettles(kind) ==
  /\ toolCall.pc = "awaitFetch"
  /\ LET call == [toolCall EXCEPT !.replies = Append(@, kind)] IN
     IF kind \in TransportKinds
     THEN /\ Return(call, Failure(TransportError(kind), call.iterations))
          /\ UNCHANGED <<aiMessages, aiSequences>>
     ELSE ReplyStored(call, kind)
  /\ UNCHANGED <<configMaxIterations, aiSession, calls, svcVars, runVars, engineVars>>

\* values of config.maxIterations: unset (the default applies), or set
ConfigMaxIterations == { << >>, << 4 >>, << 1 >> }

InitTool ==
  /\ configMaxIterations \in ConfigMaxIterations
  /\ aiSession = FALSE
  /\ aiMessages = << >>
  /\ aiSequences = << >>
  /\ toolCall = NoToolCall
  /\ toolResult = NoToolResult
  /\ calls = 0
  /\ enabled = TRUE
  /\ threshold = 1
  /\ timeThreshold = 0
  /\ buffers = << >>
  /\ capturing = {}
  /\ now = 0
  /\ idleResult = FALSE
  /\ mode = "noclient"
  /\ maxMemories = 1
  /\ runs = [r \in Runs |-> NoRun]
  /\ store = << >>
  /\ EngineIdle

NextTool ==
  \/ ExecuteToolCall
  \/ \E kind \in FetchKinds : FetchSettles(kind)

SpecTool == InitTool /\ [][NextTool]_vars

(***************************************************************************)
(* Claims about executeToolCall                                            *)
(***************************************************************************)
Replies == toolCall.replies

AllRepliesIn(n, kinds) == \A i \in 1..n : Replies[i] \in kinds

\* what the call has appended to the persisted history
Appended == SubSeq(aiMessages, toolCall.base + 1, Len(aiMessages))

\* the user prompt followed by n rounds of (assistant reply, retry prompt)
RetryRounds(n) ==
  << UserMsg >> \o [ i \in 1..(2 * n) |-> IF i % 2 = 1 THEN AssistantMsg ELSE RetryMsg ]

\* C7: while the model has only replied without invoking the expected function,
\* every such reply has appended the retry prompt and the next request is out;
\* a valid invocation on request k after k-1 such replies returns success with
\* iterations = k; maxIterations such replies return the exhaustion failure.
C7_NonInvokingRepliesRetry ==
  LET n == Len(Replies) IN
  /\ (toolCall.pc = "awaitFetch" /\ AllRepliesIn(n, NonInvokingKinds)) =>
       /\ toolCall.iterations = n + 1
       /\ n + 1 <= maxIterations
       /\ Appended = RetryRounds(n)
  /\ (toolCall.pc = "done" /\ n >= 1 /\ AllRepliesIn(n - 1, NonInvokingKinds)
        /\ Replies[n] = "valid") =>
       /\ toolResult = Success(n)
       /\ n <= maxIterations
       /\ Appended = Append(RetryRounds(n - 1), AssistantMsg)
  /\ (toolCall.pc = "done" /\ AllRepliesIn(n, NonInvokingKinds)) =>
       /\ n = maxIterations
       /\ toolResult = Failure("exhausted", maxIterations)
       /\ Appended = RetryRounds(n)

\* C7 witness: four replies without the invocation, a valid one on request 5,
\* and success reporting iterations = 5 under maxIterations = 5.
C7_Witness ==
  /\ toolCall.pc = "done"
  /\ maxIterations = 5
  /\ Len(Replies) = 5
  /\ AllRepliesIn(4, NonInvokingKinds)
  /\ Replies[5] = "valid"
  /\ toolResult = Success(5)

\* C8: an invalid argument payload, while iterations remain, appends the retry
\* prompt and the loop goes on to its next request.
C8_InvalidPayloadRetries ==
  [][ \A kind \in InvalidKinds :
        (FetchSettles(kind) /\ toolCall.iterations < maxIterations) =>
          /\ toolCall'.pc = "awaitFetch"
          /\ aiMessages' = aiMessages \o << AssistantMsg, RetryMsg >> ]_vars

\* C9: a timeout or a non-OK status is the last thing that happens in its call:
\* the call has returned a failure, no request was sent after the failed one,
\* and the failure says "timeout" exactly when the abort timer fired.
C9_TransportFailureEndsLoop ==
  LET n == Len(Replies) IN
  /\ \A i \in 1..n :
       Replies[i] \in {"timeout", "badStatus"} =>
         /\ i = n
         /\ toolCall.pc = "done"
         /\ toolCall.requests = n
         /\ ~toolResult.success
         /\ toolResult.error = (IF Replies[i] = "timeout" THEN "timeout" ELSE "apiError")
  /\ (toolCall.pc = "done" /\ toolResult.error = "timeout") =>
       (n >= 1 /\ Replies[n] = "timeout")

\* C9 witness: a request timed out while iterations remained, and the call
\* returned the timeout failure at once.
C9_Witness ==
  /\ toolCall.pc = "done"
  /\ Len(Replies) = 2
  /\ Replies[2] = "timeout"
  /\ maxIterations > 2
  /\ toolCall.requests = 2
  /\ toolResult = Failure("timeout", 2)

\* C10: the reported iterations is the number of requests sent and never
\* exceeds maxIterations; the exhaustion failure, with iterations =
\* maxIterations, is what a call returns when maxIterations requests have all
\* been answered without a valid result, and only then.
C10_ExhaustionReported ==
  LET n == Len(Replies) IN
  toolCall.pc = "done" =>
    /\ toolResult.iterations = toolCall.requests
    /\ toolResult.iterations <= maxIterations
    /\ (n = maxIterations /\ AllRepliesIn(n, NonInvokingKinds \cup InvalidKinds)) =>
         toolResult = Failure("exhausted", maxIterations)
    /\ toolResult.error = "exhausted" =>
         (n = maxIterations /\ AllRepliesIn(n, NonInvokingKinds \cup InvalidKinds))

(***************************************************************************)
(* UserProfileValidator                                                    *)
(***************************************************************************)
Null == JsValue("null", "", << >>, << >>)
Bool(b) == JsValue("boolean", IF b THEN "true" ELSE "false", << >>, << >>)
Num(a) == JsValue("number", a, << >>, << >>)
Str(a) == JsValue("string", a, << >>, << >>)
Arr(e) == JsValue("array", "", e, << >>)
Obj(f) == JsValue("object", "", << >>, f)

\* !!v
Truthy(v) ==
  CASE v.t \in {"undefined", "null"} -> FALSE
    [] v.t = "boolean" -> v.a = "true"
    [] v.t = "number" -> v.a \notin {"0", "NaN"}
    [] v.t = "string" -> v.a # ""
    [] OTHER -> TRUE

\* typeof v
TypeOf(v) == IF v.t \in {"null", "array"} THEN "object" ELSE v.t

\* Array.isArray(v)
IsArray(v) == v.t = "array"

\* v[k] of an object or an array element: undefined when v has no such key
Get(v, k) == IF v.t = "object" /\ k \in DOMAIN v.f THEN v.f[k] ELSE Undefined

\* the keys the inputs use, in the order they are inserted into an object
KeyOrder == <<"preferences", "patterns", "workflows", "note">>

\* Object.keys(data)
Keys(v) ==
  LET Has(k) == k \in DOMAIN v.f IN SelectSeq(KeyOrder, Has)

\* one entry of the errors list: `field[index].prop what`, index -1 and prop ""
\* where the message has none
Violation(field, index, prop, what) ==
  [ field |-> field, index |-> index, prop |-> prop, what |-> what ]

Invalid(errors) == [ called |-> TRUE, valid |-> FALSE, errors |-> errors ]

ErrorIf(cond, violation) == IF cond THEN <<violation>> ELSE << >>

\* the loop body of validatePreferences for preferences[i]
PreferenceErrors(i, pref) ==
  IF ~Truthy(pref) \/ TypeOf(pref) # "object"
  THEN <<Violation("preferences", i, "", "is not an object")>>
  ELSE ErrorIf(~Truthy(Get(pref, "category")) \/ TypeOf(Get(pref, "category")) # "string",
               Violation("preferences", i, "category", "is missing or invalid"))
       \o ErrorIf(~Truthy(Get(pref, "description")) \/ TypeOf(Get(pref, "description")) # "string",
                  Violation("preferences", i, "description", "is missing or invalid"))
       \o ErrorIf(TypeOf(Get(pref, "confidence")) # "number",
                  Violation("preferences", i, "confidence", "is missing or invalid"))
       \o (IF ~IsArray(Get(pref, "evidence"))
           THEN <<Violation("preferences", i, "evidence", "must be an array")>>
           ELSE ErrorIf(Len(Get(pref, "evidence").e) = 0,
                        Violation("preferences", i, "evidence", "cannot be empty")))

\* the loop body of validatePatterns for patterns[i]
PatternErrors(i, pattern) ==
  IF ~Truthy(pattern) \/ TypeOf(pattern) # "object"
  THEN <<Violation("patterns", i, "", "is not an object")>>
  ELSE ErrorIf(~Truthy(Get(pattern, "category")) \/ TypeOf(Get(pattern, "category")) # "string",
               Violation("patterns", i, "category", "is missing or invalid"))
       \o ErrorIf(~Truthy(Get(pattern, "description")) \/ TypeOf(Get(pattern, "description")) # "string",
                  Violation("patterns", i, "description", "is missing or invalid"))

\* the loop body of validateWorkflows for workflows[i]
WorkflowErrors(i, workflow) ==
  IF ~Truthy(workflow) \/ TypeOf(workflow) # "object"
  THEN <<Violation("workflows", i, "", "is not an object")>>
  ELSE ErrorIf(~Truthy(Get(workflow, "description")) \/ TypeOf(Get(workflow, "description")) # "string",
               Violation("workflows", i, "description", "is missing or invalid"))
       \o (IF ~IsArray(Get(workflow, "steps"))
           THEN <<Violation("workflows", i, "steps", "must be an array")>>
           ELSE ErrorIf(Len(Get(workflow, "steps").e) = 0,
                        Violation("workflows", i, "steps", "cannot be empty")))

RECURSIVE validatePreferencesFrom(_, _)
validatePreferencesFrom(preferences, i) ==
  IF i >= Len(preferences.e) THEN << >>
  ELSE PreferenceErrors(i, preferences.e[i + 1]) \o validatePreferencesFrom(preferences, i + 1)

validatePreferences(preferences) ==
  IF ~IsArray(preferences)
  THEN <<Violation("preferences", -1, "", "must be an array")>>
  ELSE validatePreferencesFrom(preferences, 0)

RECURSIVE validatePatternsFrom(_, _)
validatePatternsFrom(patterns, i) ==
  IF i >= Len(patterns.e) THEN << >>
  ELSE PatternErrors(i, patterns.e[i + 1]) \o validatePatternsFrom(patterns, i + 1)

validatePatterns(patterns) ==
  IF ~IsArray(patterns)
  THEN <<Violation("patterns", -1, "", "must be an array")>>
  ELSE validatePatternsFrom(patterns, 0)

RECURSIVE validateWorkflowsFrom(_, _)
validateWorkflowsFrom(workflows, i) ==
  IF i >= Len(workflows.e) THEN << >>
  ELSE WorkflowErrors(i, workflows.e[i + 1]) \o validateWorkflowsFrom(workflows, i + 1)

validateWorkflows(workflows) ==
  IF ~IsArray(workflows)
  THEN <<Violation("workflows", -1, "", "must be an array")>>
  ELSE validateWorkflowsFrom(workflows, 0)

\* the errors of the `for (const key of keys)` loop, from position i of keys on
RECURSIVE NullFieldErrors(_, _, _)
NullFieldErrors(d, keys, i) ==
  IF i > Len(keys) THEN << >>
  ELSE ErrorIf(d.f[keys[i]].t \in {"undefined", "null"},
               Violation(keys[i], -1, "", "is null or undefined"))
       \o NullFieldErrors(d, keys, i + 1)

validate(d) ==
  IF ~Truthy(d) \/ TypeOf(d) # "object"
  THEN Invalid(<<Violation("", -1, "", "Response is not an object")>>)
  ELSE IF IsArray(d)
  THEN Invalid(<<Violation("", -1, "", "Response cannot be an array")>>)
  ELSE IF Len(Keys(d)) = 0
  THEN Invalid(<<Violation("", -1, "", "Response object is empty")>>)
  ELSE IF NullFieldErrors(d, Keys(d), 1) # << >>
  THEN Invalid(NullFieldErrors(d, Keys(d), 1))
  ELSE LET errors ==
             (IF Truthy(Get(d, "preferences")) THEN validatePreferences(Get(d, "preferences")) ELSE << >>)
             \o (IF Truthy(Get(d, "patterns")) THEN validatePatterns(Get(d, "patterns")) ELSE << >>)
             \o (IF Truthy(Get(d, "workflows")) THEN validateWorkflows(Get(d, "workflows")) ELSE << >>)
       IN  IF errors # << >>
           THEN Invalid(errors)
           ELSE [ called |-> TRUE, valid |-> TRUE, errors |-> << >> ]

\* marks a key an input object does not have
Absent == JsValue("absent", "", << >>, << >>)

\* the object holding the keys of fields whose value is not Absent
ObjectOf(fields) ==
  Obj([k \in {x \in DOMAIN fields : fields[x] # Absent} |-> fields[k]])

GoodPreference ==
  ObjectOf([category |-> Str("x"), description |-> Str("y"), confidence |-> Num("0.8"),
            evidence |-> Arr(<<Str("z")>>)])

EmptyEvidencePreference ==
  ObjectOf([category |-> Str("x"), description |-> Str("y"), confidence |-> Num("0.8"),
            evidence |-> Arr(<< >>)])

PreferenceItems ==
  { ObjectOf([category |-> c, description |-> ds, confidence |-> cf, evidence |-> ev]) :
      c \in {Absent, Str(""), Str("x"), Num("0.8")},
      ds \in {Absent, Str("y")},
      cf \in {Absent, Num("0.8"), Str("0.8")},
      ev \in {Absent, Arr(<< >>), Arr(<<Str("z")>>), Str("z")} }
  \cup {Null, Str("x")}

PreferencesValues ==
  {Absent, Undefined, Null, Num("0"), Str(""), Bool(FALSE), Str("x"), Obj(<< >>), Arr(<< >>)}
  \cup { Arr(<<p>>) : p \in PreferenceItems }
  \cup { Arr(<<p, q>>) : p, q \in {GoodPreference, EmptyEvidencePreference} }

PatternsValues ==
  { Absent, Null, Bool(FALSE), Str("x"), Arr(<< >>),
    Arr(<<ObjectOf([category |-> Str("x"), description |-> Str("y")])>>),
    Arr(<<ObjectOf([category |-> Str("x"), description |-> Absent])>>) }

WorkflowsValues ==
  { Absent, Num("0"),
    Arr(<<ObjectOf([description |-> Str("y"), steps |-> Arr(<<Str("s")>>)])>>),
    Arr(<<ObjectOf([description |-> Str("y"), steps |-> Arr(<< >>)])>>) }

NoteValues == {Absent, Null, Str("v")}

\* the arguments validate is called with
ProfileInputs ==
  { ObjectOf([preferences |-> p, patterns |-> pt, workflows |-> w, note |-> n]) :
      p \in PreferencesValues, pt \in PatternsValues, w \in WorkflowsValues, n \in NoteValues }
  \cup {Undefined, Null, Bool(FALSE), Num("0"), Str("x"), Arr(<< >>), Arr(<<GoodPreference>>)}

\* everything but the validator at rest
RestIdleForValidator ==
  /\ ToolIdle
  /\ MemoryIdle
  /\ EmbeddingIdle
  /\ AuxIdle
  /\ enabled = TRUE
  /\ threshold = 1
  /\ timeThreshold = 0
  /\ buffers = << >>
  /\ capturing = {}
  /\ now = 0
  /\ idleResult = FALSE
  /\ mode = "noclient"
  /\ maxMemories = 1
  /\ runs = [r \in Runs |-> NoRun]
  /\ store = << >>

InitValidate ==
  /\ data \in ProfileInputs
  /\ validation = NoValidation
  /\ RestIdleForValidator

Validate ==
  /\ ~validation.called
  /\ validation' = validate(data)
  /\ UNCHANGED <<data, svcVars, runVars, toolVars, memVars, embVars, auxVars>>

NextValidate == Validate

SpecValidate == InitValidate /\ [][NextValidate]_vars

(***************************************************************************)
(* Claims about UserProfileValidator                                       *)
(***************************************************************************)
CollectionFields == {"preferences", "patterns", "workflows"}

HasString(el, k) == Get(el, k).t = "string" /\ Get(el, k).a # ""

HasNonEmptyArray(el, k) == Get(el, k).t = "array" /\ Len(Get(el, k).e) > 0

\* the per-kind rules of an element of a collection field
ElementOk(kind, el) ==
  /\ el.t = "object"
  /\ kind = "preferences" =>
       /\ HasString(el, "category")
       /\ HasString(el, "description")
       /\ Get(el, "confidence").t = "number"
       /\ HasNonEmptyArray(el, "evidence")
  /\ kind = "patterns" =>
       /\ HasString(el, "category")
       /\ HasString(el, "description")
  /\ kind = "workflows" =>
       /\ HasString(el, "description")
       /\ HasNonEmptyArray(el, "steps")

ClaimedValid(d) ==
  /\ d.t = "object"
  /\ DOMAIN d.f # {}
  /\ \A k \in DOMAIN d.f : d.f[k].t \notin {"null", "undefined"}
  /\ \A k \in CollectionFields \cap DOMAIN d.f :
       /\ d.f[k].t = "array"
       /\ \A i \in 1..Len(d.f[k].e) : ElementOk(k, d.f[k].e[i])

\* C12: validate(d) reports valid exactly when d is a non-null, non-array
\* object with at least one field, no top-level field is null or undefined,
\* and every recognized collection field is an array whose every element is an
\* object satisfying its per-kind rules (strings read as non-empty strings);
\* {preferences: [GoodPreference]} is valid, and with evidence [] it fails with
\* the "cannot be empty" violation of that field.
C12_ValidExactlyWhenWellFormed ==
  validation.called =>
    /\ validation.valid <=> ClaimedValid(data)
    /\ data = ObjectOf([preferences |-> Arr(<<GoodPreference>>)]) => validation.valid
    /\ data = ObjectOf([preferences |-> Arr(<<EmptyEvidencePreference>>)]) =>
         validation.errors = <<Violation("preferences", 0, "evidence", "cannot be empty")>>

(***************************************************************************)
(* LocalMemoryClient: the text of ids, tags and filter clauses             *)
(***************************************************************************)
\* A string is the sequence of its lexical pieces: a word, a quote ', or an
\* operator with its blanks.  A filter clause is built by interpolation and
\* then read by the table's SQL engine, piece by piece.
Quote == "'"

\* the template literals of the where and delete calls: the back-quoted column
\* name (one piece), " = ", and the interpolated text between two quotes
WhereClause(column, text) == <<column, " = ", Quote>> \o text \o <<Quote>>

Token(k, v) == [ k |-> k, v |-> v ]

\* the token a piece outside a string literal stands for
PieceToken(piece) ==
  CASE piece \in {"containerTag", "id"} -> Token("column", <<piece>>)
    [] piece \in {" = ", "="} -> Token("eq", << >>)
    [] piece = " OR " -> Token("or", << >>)
    [] OTHER -> Token("word", <<piece>>)

\* the SQL engine's lexer from piece i on: a quote opens a literal that runs to
\* the next quote; `inLit` tells whether a literal is open and `lit` holds it
RECURSIVE Lex(_, _, _, _)
Lex(clause, i, inLit, lit) ==
  IF i > Len(clause)
  THEN IF inLit THEN <<Token("unterminated", lit)>> ELSE << >>
  ELSE IF clause[i] = Quote
  THEN IF inLit
       THEN <<Token("literal", lit)>> \o Lex(clause, i + 1, FALSE, << >>)
       ELSE Lex(clause, i + 1, TRUE, << >>)
  ELSE IF inLit
  THEN Lex(clause, i + 1, TRUE, Append(lit, clause[i]))
  ELSE <<PieceToken(clause[i])>> \o Lex(clause, i + 1, FALSE, << >>)

IsOperand(tok) == tok.k \in {"column", "literal"}

\* the engine accepts: operand = operand { OR operand = operand }
WellFormed(tokens) ==
  /\ Len(tokens) % 4 = 3
  /\ \A j \in 1..Len(tokens) :
       CASE j % 4 = 1 -> IsOperand(tokens[j])
         [] j % 4 = 2 -> tokens[j].k = "eq"
         [] j % 4 = 3 -> IsOperand(tokens[j])
         [] OTHER     -> tokens[j].k = "or"

\* the value of an operand on a row
OperandValue(tok, row) ==
  IF tok.k = "literal" THEN tok.v
  ELSE IF tok.v = <<"id">> THEN row.id ELSE row.containerTag

\* whether the clause is accepted by the engine
ClauseOk(clause) == WellFormed(Lex(clause, 1, FALSE, << >>))

\* whether a row satisfies an accepted clause
Satisfies(row, clause) ==
  LET tokens == Lex(clause, 1, FALSE, << >>) IN
  \E j \in 1..Len(tokens) :
    /\ j % 4 = 1
    /\ OperandValue(tokens[j], row) = OperandValue(tokens[j + 2], row)

(***************************************************************************)
(* LocalMemoryClient: the table and its queries                            *)
(***************************************************************************)
\* addMemory calls explored
MaxAdds == 2

TagA == <<"A">>
TagB == <<"B">>
\* a tag that closes the quoted literal and adds a clause of its own
InjectTag == <<"B", Quote, " OR ", Quote, "x", Quote, "=", Quote, "x">>
\* a tag holding one quote
QuoteTag == <<"O", Quote, "B">>

\* CONFIG.maxMemories
ConfigMaxMemories == 2
\* CONFIG.maxProfileItems
MaxProfileItems == 1
\* similarities and distances are counted in tenths: 1 is Unit
Unit == 10
\* CONFIG.similarityThreshold, in tenths
SimilarityThreshold == 6

\* embedder.embed(text): the texts lie on a line, a vector is a position on it
embed(text) ==
  CASE text = "c1" -> 0
    [] text = "c2" -> 3
    [] text = "q3" -> 8

\* the _distance the engine reports between two vectors
Distance(u, v) == IF u < v THEN v - u ELSE u - v

\* 1 - (r._distance || 0)
Similarity(distance) == Unit - (IF distance = 0 THEN 0 ELSE distance)

\* `mem_${Date.now()}_${random}`; the n-th random draw differs from all earlier ones
NewId(t, n) == <<"mem", ToString(t), ToString(n)>>

MemoryRecord(id, content, vector, containerTag, type, createdAt) ==
  [ id |-> id, content |-> content, vector |-> vector, containerTag |-> containerTag,
    type |-> type, createdAt |-> createdAt ]

\* how many rows of the table rows hold the record r
RowsOf(rows, r) == IF r \in DOMAIN rows THEN rows[r] ELSE 0

RECURSIVE SumOver(_, _)
SumOver(rows, records) ==
  IF records = {} THEN 0
  ELSE LET r == CHOOSE x \in records : TRUE
       IN  rows[r] + SumOver(rows, records \ {r})

\* the number of rows of a table
RowCount(rows) == SumOver(rows, DOMAIN rows)

\* table.add([record])
AddRow(rows, record) ==
  [r \in DOMAIN rows \cup {record} |-> IF r = record THEN RowsOf(rows, r) + 1 ELSE rows[r]]

\* the rows of a table that satisfy an accepted clause
Where(rows, clause) ==
  [r \in {x \in DOMAIN rows : Satisfies(x, clause)} |-> rows[r]]

\* table.delete(clause)
DeleteWhere(rows, clause) ==
  [r \in {x \in DOMAIN rows : ~Satisfies(x, clause)} |-> rows[r]]

\* the orders in which a query without ordering may return the rows: the
\* engine promises none, so any
ScanOrders(rows) ==
  LET n == RowCount(rows) IN
  { s \in [1..n -> DOMAIN rows] :
      \A r \in DOMAIN rows : Cardinality({ i \in 1..n : s[i] = r }) = rows[r] }

\* .limit(n)
Limit(rows, n) == SubSeq(rows, 1, IF Len(rows) < n THEN Len(rows) ELSE n)

\* an index that returns the rows in scan order, whatever the query
UnorderedScan(rows, queryVector) == ScanOrders(rows)

\* the orders in which nearestTo(queryVector) may return the rows: ascending
\* distance, rows at equal distance in any order
NearestOrders(rows, queryVector) ==
  { s \in ScanOrders(rows) :
      \A i, j \in 1..Len(s) :
        i < j => Distance(queryVector, s[i].vector) <= Distance(queryVector, s[j].vector) }

\* results.sort((a, b) => Number(b.createdAt) - Number(a.createdAt)): a stable
\* sort, written as insertion of each row after the rows not older than it
RECURSIVE SortByCreatedAtDesc(_)
SortByCreatedAtDesc(rows) ==
  IF rows = << >> THEN << >>
  ELSE LET n == Len(rows)
           sorted == SortByCreatedAtDesc(SubSeq(rows, 1, n - 1))
           last == rows[n]
           k == Cardinality({ i \in 1..Len(sorted) : sorted[i].createdAt >= last.createdAt })
       IN  SubSeq(sorted, 1, k) \o <<last>> \o SubSeq(sorted, k + 1, Len(sorted))

\* one element of a result list: the row it was built from and, for a search,
\* its similarity (0 otherwise)
Item(row, similarity) == [ row |-> row, similarity |-> similarity ]

ItemsOf(rows) == [i \in 1..Len(rows) |-> Item(rows[i], 0)]

\* the results of a search that keeps the results below the threshold
SearchItemsUnfiltered(rows, queryVector) ==
  [i \in 1..Len(rows) |-> Item(rows[i], Similarity(Distance(queryVector, rows[i].vector)))]

\* results.map(...).filter(r => r.similarity >= CONFIG.similarityThreshold)
SearchItems(rows, queryVector) ==
  LET mapped == [i \in 1..Len(rows) |->
                   Item(rows[i], Similarity(Distance(queryVector, rows[i].vector)))]
      Relevant(r) == r.similarity >= SimilarityThreshold
  IN  SelectSeq(mapped, Relevant)

IsPreference(r) == r.type = "preference"

IsDynamic(r) == r.type # "preference"

Reply(op, arg, success, items, dynamic) ==
  [ op |-> op, arg |-> arg, query |-> "", success |-> success, error |-> "",
    thrown |-> FALSE, items |-> items, dynamic |-> dynamic ]

\* the catch block's result of a call: success false, the error's message and
\* an empty payload
Failed(op, arg) == [Reply(op, arg, FALSE, << >>, << >>) EXCEPT !.error = "message"]

\* a call whose promise rejects: the caller gets no result
Thrown(op, arg) == [Reply(op, arg, FALSE, << >>, << >>) EXCEPT !.thrown = TRUE]

\* the awaits of a LocalMemoryClient operation that can reject ("timeout": the
\* timer of withTimeout around embed)
FailurePoints(op) ==
  CASE op = "add" -> {"initialize", "embed", "timeout", "add", "refreshTable"}
    [] op = "delete" -> {"initialize", "delete", "refreshTable"}
    [] op = "search" -> {"initialize", "refreshTable", "embed", "timeout", "query"}
    [] op \in {"list", "profile"} -> {"initialize", "refreshTable", "query"}

\* the points at which a call with that outcome failed: a write that was
\* stored failed at the refreshTable that follows it, any other before the write
OutcomePoints(op, outcome) ==
  IF outcome = "ok" THEN {"none"}
  ELSE IF outcome \in {"storedThenFailed", "deletedThenFailed"} THEN {"refreshTable"}
  ELSE FailurePoints(op) \ {"refreshTable"}

\* a try block that opens after the await of initialize()
InTryAfterInitialize(op, point) == point # "initialize"

\* whether the await lies inside the operation's try block: each of the five
\* operations awaits nothing outside it
InTry(op, point) == TRUE

\* the result of an operation that failed at that point
Raised(op, arg, point) == IF InTry(op, point) THEN Failed(op, arg) ELSE Thrown(op, arg)

(***************************************************************************)
(* LocalMemoryClient and handleUpdateMemory: the calls                     *)
(***************************************************************************)
Contents2 == {"c1", "c2"}
Queries == {"c1", "c2", "q3"}
Types == {"preference", "conversation"}
PlainTags == {TagA, TagB}
QueryTags == {TagA, TagB, InjectTag, QuoteTag}
ListLimits == {1, 2}

\* (content, containerTag, metadata.type) of the addMemory calls
AddInputs ==
  { [content |-> "c1", containerTag |-> TagA, type |-> "preference"],
    [content |-> "c2", containerTag |-> TagA, type |-> "conversation"],
    [content |-> "c1", containerTag |-> TagB, type |-> "conversation"] }

\* an id no record carries, and an id that closes the quoted literal
UnknownId == <<"mem", "9", "9">>
InjectId == <<"x", Quote, " OR ", Quote, "x", Quote, "=", Quote, "x">>

TableIds == { r.id : r \in DOMAIN table }

\* addMemory when Math.random() yields the suffix random
addMemoryWith(content, containerTag, type, random) ==
  /\ draws < MaxAdds
  /\ \E outcome \in AddMemoryOutcomes :
       LET id == NewId(now, random)
           record == MemoryRecord(id, content, embed(content), containerTag, type, now)
       IN  /\ table' = IF outcome = "failed" THEN table ELSE AddRow(table, record)
           /\ draws' = IF outcome = "failed" THEN draws ELSE draws + 1
           /\ \E point \in OutcomePoints("add", outcome) :
                reply' = IF outcome = "ok" THEN Reply("add", id, TRUE, << >>, << >>)
                         ELSE Raised("add", << >>, point)
  /\ UNCHANGED <<updates, deleted, valVars, embVars, auxVars, svcVars, runVars, toolVars>>

\* addMemory when Math.random() yields a suffix it has not yielded before
addMemory(content, containerTag, type) == addMemoryWith(content, containerTag, type, draws)

\* deleteMemory returned: "ok", "failed" (initialize or table.delete threw: no
\* row removed), "deletedThenFailed" (the rows were removed, refreshTable threw)
DeleteOutcomes == {"ok", "failed", "deletedThenFailed"}

\* the table after a deleteMemory(memoryId) call of that outcome
DeleteMemoryTable(memoryId, outcome) ==
  IF outcome = "failed" THEN table ELSE DeleteWhere(table, WhereClause("id", memoryId))

deleteMemory(memoryId) ==
  /\ \E outcome \in DeleteOutcomes :
       /\ outcome # "failed" => ClauseOk(WhereClause("id", memoryId))
       /\ table' = DeleteMemoryTable(memoryId, outcome)
       /\ \E point \in OutcomePoints("delete", outcome) :
            reply' = IF outcome = "ok" THEN Reply("delete", memoryId, TRUE, << >>, << >>)
                     ELSE Raised("delete", memoryId, point)
       /\ deleted' = IF outcome = "ok" /\ memoryId \in TableIds
                     THEN deleted \cup {memoryId} ELSE deleted
  /\ UNCHANGED <<draws, updates, valVars, embVars, auxVars, svcVars, runVars, toolVars>>

listMemories(containerTag, limit) ==
  /\ \/ \E point \in FailurePoints("list") : reply' = Raised("list", containerTag, point)
     \/ /\ ClauseOk(WhereClause("containerTag", containerTag))
        /\ \E results \in ScanOrders(Where(table, WhereClause("containerTag", containerTag))) :
             reply' = Reply("list", containerTag, TRUE,
                            ItemsOf(SortByCreatedAtDesc(Limit(results, limit))), << >>)
  /\ UNCHANGED <<table, draws, updates, deleted, valVars, embVars, auxVars, svcVars, runVars, toolVars>>

searchMemories(query, containerTag) ==
  /\ \/ \E point \in FailurePoints("search") : reply' = Raised("search", containerTag, point)
     \/ /\ ClauseOk(WhereClause("containerTag", containerTag))
        /\ \E nearest \in NearestOrders(Where(table, WhereClause("containerTag", containerTag)),
                                        embed(query)) :
             reply' = [Reply("search", containerTag, TRUE,
                             SearchItems(Limit(nearest, ConfigMaxMemories), embed(query)),
                             << >>) EXCEPT !.query = query]
  /\ UNCHANGED <<table, draws, updates, deleted, valVars, embVars, auxVars, svcVars, runVars, toolVars>>

getProfile(containerTag) ==
  /\ \/ \E point \in FailurePoints("profile") : reply' = Raised("profile", containerTag, point)
     \/ /\ ClauseOk(WhereClause("containerTag", containerTag))
        /\ \E scan \in ScanOrders(Where(table, WhereClause("containerTag", containerTag))) :
             LET results == Limit(scan, MaxProfileItems * 2) IN
             reply' = Reply("profile", containerTag, TRUE,
                            ItemsOf(Limit(SelectSeq(results, IsPreference), MaxProfileItems)),
                            ItemsOf(Limit(SelectSeq(results, IsDynamic), MaxProfileItems)))
  /\ UNCHANGED <<table, draws, updates, deleted, valVars, embVars, auxVars, svcVars, runVars, toolVars>>

\* data.content of the handleUpdateMemory calls: "" when the call gives none
UpdateContents == {"", "c2"}

\* handleUpdateMemory up to its deleteMemory call: warmup, refreshTable and the
\* query for the record; a throw or an empty result ends the call
UpdateStart(u, id, content) ==
  /\ updates[u].pc = "idle"
  /\ RowCount(table) <= MaxAdds
  /\ \/ /\ reply' = Failed("update", id)
        /\ UNCHANGED updates
     \/ /\ ClauseOk(WhereClause("id", id))
        /\ \E existing \in ScanOrders(Where(table, WhereClause("id", id))) :
             IF Len(existing) = 0
             THEN /\ reply' = Failed("update", id)
                  /\ UNCHANGED updates
             ELSE /\ updates' = [updates EXCEPT ![u] =
                                   [ pc |-> "delete", id |-> id, content |-> content,
                                     memory |-> existing[1] ]]
                  /\ UNCHANGED reply
  /\ UNCHANGED <<table, draws, deleted, valVars, embVars, auxVars, svcVars, runVars, toolVars>>

\* await memoryClient.deleteMemory(id): whatever it returns, the call goes on
UpdateDeletes(u) ==
  /\ updates[u].pc = "delete"
  /\ \E outcome \in DeleteOutcomes : table' = DeleteMemoryTable(updates[u].id, outcome)
  /\ updates' = [updates EXCEPT ![u].pc = "embed"]
  /\ UNCHANGED <<draws, reply, deleted, valVars, embVars, auxVars, svcVars, runVars, toolVars>>

\* await embedder.embed(...): a vector, or a throw that ends the call
UpdateEmbeds(u) ==
  /\ updates[u].pc = "embed"
  /\ \/ /\ updates' = [updates EXCEPT ![u].pc = "add"]
        /\ UNCHANGED reply
     \/ /\ updates' = [updates EXCEPT ![u] = NoUpdate]
        /\ reply' = Failed("update", updates[u].id)
  /\ UNCHANGED <<table, draws, deleted, valVars, embVars, auxVars, svcVars, runVars, toolVars>>

\* updatedMemory carrying the vector of the record read, not a fresh embedding
updatedMemoryStaleVector(up) ==
  LET content == IF up.content # "" THEN up.content ELSE up.memory.content IN
  MemoryRecord(up.id, content, up.memory.vector, up.memory.containerTag, up.memory.type,
               up.memory.createdAt)

\* the record handleUpdateMemory reinserts
updatedMemory(up) ==
  LET content == IF up.content # "" THEN up.content ELSE up.memory.content IN
  MemoryRecord(up.id, content, embed(content), up.memory.containerTag, up.memory.type,
               up.memory.createdAt)

\* await table.add([updatedMemory]) and refreshTable, with the outcomes of an add
UpdateAdds(u) ==
  /\ updates[u].pc = "add"
  /\ \E outcome \in AddMemoryOutcomes :
       /\ table' = IF outcome = "failed" THEN table
                   ELSE AddRow(table, updatedMemory(updates[u]))
       /\ reply' = IF outcome = "ok" THEN Reply("update", updates[u].id, TRUE, << >>, << >>)
                   ELSE Failed("update", updates[u].id)
  /\ updates' = [updates EXCEPT ![u] = NoUpdate]
  /\ UNCHANGED <<draws, deleted, valVars, embVars, auxVars, svcVars, runVars, toolVars>>

\* the auto-capture service and its runs at rest
CaptureIdle ==
  /\ enabled = TRUE
  /\ threshold = 1
  /\ timeThreshold = 0
  /\ buffers = << >>
  /\ capturing = {}
  /\ now = 0
  /\ idleResult = FALSE
  /\ mode = "noclient"
  /\ maxMemories = 1
  /\ runs = [r \in Runs |-> NoRun]
  /\ store = << >>

\* the updater of the behaviours that explore one handleUpdateMemory call at a time
OneUpdater == {u \in Updaters : \A v \in Updaters : u <= v}

InitMemory ==
  /\ MemoryIdle
  /\ EmbeddingIdle
  /\ AuxIdle
  /\ ValidatorIdle
  /\ ToolIdle
  /\ CaptureIdle

NextMemory ==
  \/ \E in \in AddInputs : addMemory(in.content, in.containerTag, in.type)
  \/ \E id \in TableIds \cup {UnknownId, InjectId} : deleteMemory(id)
  \/ \E tag \in PlainTags, limit \in ListLimits : listMemories(tag, limit)
  \/ \E query \in Contents2, tag \in PlainTags : searchMemories(query, tag)
  \/ \E u \in OneUpdater, id \in TableIds \cup {UnknownId}, content \in UpdateContents :
       UpdateStart(u, id, content)
  \/ \E u \in OneUpdater : UpdateDeletes(u)
  \/ \E u \in OneUpdater : UpdateEmbeds(u)
  \/ \E u \in OneUpdater : UpdateAdds(u)

SpecMemory == InitMemory /\ [][NextMemory]_vars

\* the client and two handleUpdateMemory calls that run concurrently
NextUpdates ==
  \/ addMemory("c1", TagA, "preference")
  \/ \E id \in TableIds : deleteMemory(id)
  \/ \E u \in Updaters, id \in TableIds, content \in UpdateContents :
       UpdateStart(u, id, content)
  \/ \E u \in Updaters : UpdateDeletes(u)
  \/ \E u \in Updaters : UpdateEmbeds(u)
  \/ \E u \in Updaters : UpdateAdds(u)

SpecUpdates == InitMemory /\ [][NextUpdates]_vars

(***************************************************************************)
(* Claims about the records of the table                                   *)
(***************************************************************************)
\* C13: in every reachable state each record's vector is the embedding of that
\* record's content, whatever addMemory, handleUpdateMemory and deleteMemory
\* calls were made.
C13_VectorIsEmbeddingOfContent ==
  \A r \in DOMAIN table : r.vector = embed(r.content)

\* C13 witness: an update that succeeded changed a record's content from c1 to
\* c2 (no addMemory call stores c2 under tag B), and its vector is c2's.
C13_Witness ==
  /\ reply.op = "update"
  /\ reply.success
  /\ \E r \in DOMAIN table :
       /\ r.id = reply.arg
       /\ r.containerTag = TagB
       /\ r.content = "c2"
       /\ r.vector = embed("c2")

\* the number of rows of the table rows whose record carries the id
RowsWithId(rows, id) == SumOver(rows, { r \in DOMAIN rows : r.id = id })

\* C14: when a handleUpdateMemory call that got as far as its delete step
\* returns, the table holds at most one record with the call's id (never the
\* old record together with the new one), and none when the call failed.
C14_UpdateLeavesAbsentNeverInconsistent ==
  [][ \A u \in Updaters :
        (updates[u].pc # "idle" /\ updates'[u].pc = "idle") =>
          /\ RowsWithId(table', updates[u].id) <= 1
          /\ ~reply'.success => RowsWithId(table', updates[u].id) = 0 ]_vars

\* the table rows without the records that carry the id
WithoutId(rows, id) == [r \in { x \in DOMAIN rows : x.id # id } |-> rows[r]]

\* C15: a deleteMemory(id) call that reports success leaves every record with
\* another id as it was, and no listMemories or searchMemories call made after
\* it returns a record with that id.
C15_DeletedStaysDeleted ==
  [][ /\ \A id \in TableIds \cup {UnknownId, InjectId} :
           (deleteMemory(id) /\ reply'.success) =>
             WithoutId(table', id) = WithoutId(table, id)
      /\ reply'.op \in {"list", "search"} =>
           \A i \in 1..Len(reply'.items) : reply'.items[i].row.id \notin deleted' ]_vars

\* C16: a deleteMemory(id) call for an id that no record of the table carries
\* reports failure and leaves every record unchanged.
C16_UnknownIdReportsNotFound ==
  [][ \A id \in {UnknownId, InjectId} :
        (deleteMemory(id) /\ id \notin TableIds) =>
          /\ ~reply'.success
          /\ table' = table ]_vars

(***************************************************************************)
(* LocalMemoryClient opened on a table that earlier processes filled       *)
(***************************************************************************)
\* records an earlier process stored: three under tag A (two of them with the
\* same content, two created in the same millisecond), one under tag B
PersistedRecords ==
  { MemoryRecord(NewId(0, 6), "c1", embed("c1"), TagB, "conversation", 0),
    MemoryRecord(NewId(0, 7), "c1", embed("c1"), TagA, "preference", 0),
    MemoryRecord(NewId(0, 8), "c2", embed("c2"), TagA, "conversation", 0),
    MemoryRecord(NewId(1, 9), "c1", embed("c1"), TagA, "conversation", 1) }

\* the tables initialize() may find: any of those records, one row each
PersistedTables == { [r \in S |-> 1] : S \in SUBSET PersistedRecords }

InitQuery ==
  /\ table \in PersistedTables
  /\ draws = 0
  /\ updates = [u \in Updaters |-> NoUpdate]
  /\ reply = NoReply
  /\ deleted = {}
  /\ EmbeddingIdle
  /\ AuxIdle
  /\ ValidatorIdle
  /\ ToolIdle
  /\ enabled = TRUE
  /\ threshold = 1
  /\ timeThreshold = 0
  /\ buffers = << >>
  /\ capturing = {}
  /\ now = 1
  /\ idleResult = FALSE
  /\ mode = "noclient"
  /\ maxMemories = 1
  /\ runs = [r \in Runs |-> NoRun]
  /\ store = << >>

\* one addMemory call, and any queries before and after it
NextQuery ==
  \/ \E in \in AddInputs : draws = 0 /\ addMemory(in.content, in.containerTag, in.type)
  \/ \E tag \in QueryTags, limit \in ListLimits : listMemories(tag, limit)
  \/ \E query \in Queries, tag \in QueryTags : searchMemories(query, tag)
  \/ \E tag \in QueryTags : getProfile(tag)

SpecQuery == InitQuery /\ [][NextQuery]_vars

(***************************************************************************)
(* Claims about the queries                                                *)
(***************************************************************************)
\* the records of the table stored under the tag
Partition(tag) == { r \in DOMAIN table : r.containerTag = tag }

ResultRows(items) == { items[i].row : i \in 1..Len(items) }

\* C17: listMemories(tag, limit) returns the partition's records sorted by
\* createdAt descending and then truncated to limit: min(limit, size of the
\* partition) records, newest first, and no record left out is newer than a
\* record returned.
C17_ListReturnsMostRecent ==
  [][ \A tag \in PlainTags, limit \in ListLimits :
        (listMemories(tag, limit) /\ reply'.success) =>
          LET items == reply'.items
              size == RowCount([r \in Partition(tag) |-> table[r]])
          IN  /\ Len(items) = IF size < limit THEN size ELSE limit
              /\ \A i, j \in 1..Len(items) :
                   i < j => items[i].row.createdAt >= items[j].row.createdAt
              /\ \A r \in Partition(tag) \ ResultRows(items) :
                   \A i \in 1..Len(items) : r.createdAt <= items[i].row.createdAt ]_vars

\* C18: partition isolation: a successful listMemories(B), searchMemories(q, B)
\* or getProfile(B) returns no record stored under a tag other than B,
\* whatever the tags, the contents and the query.
C18_PartitionsIsolated ==
  (reply.op \in {"list", "search", "profile"} /\ reply.success) =>
    \A row \in ResultRows(reply.items) \cup ResultRows(reply.dynamic) :
      row.containerTag = reply.arg

\* C19: every result of searchMemories(query, tag) has similarity = 1 - distance
\* (in tenths: Unit - distance) and similarity >= the similarity threshold, at
\* most the configured maximum number of results is returned, and the results
\* are in order of non-increasing similarity.
C19_SearchResultsScoredFilteredOrdered ==
  (reply.op = "search" /\ reply.success) =>
    LET items == reply.items IN
    /\ Len(items) <= ConfigMaxMemories
    /\ \A i \in 1..Len(items) :
         /\ items[i].similarity = Unit - Distance(embed(reply.query), items[i].row.vector)
         /\ items[i].similarity >= SimilarityThreshold
    /\ \A i, j \in 1..Len(items) :
         i < j => items[i].similarity >= items[j].similarity

\* a search over a partition of three records returned the two nearest, the
\* nearer one first
C19_Witness ==
  /\ reply.op = "search"
  /\ reply.success
  /\ reply.arg = TagA
  /\ Cardinality(Partition(TagA)) >= 3
  /\ Len(reply.items) = ConfigMaxMemories
  /\ reply.items[1].similarity > reply.items[2].similarity
  /\ reply.items[2].similarity >= SimilarityThreshold

\* the transition is a successful searchMemories(c, tag) that follows at once
\* the successful addMemory(c, tag) whose record the table holds
SearchFollowsAdd(c, tag) ==
  /\ reply.op = "add"
  /\ reply.success
  /\ \E r \in DOMAIN table : r.id = reply.arg /\ r.content = c /\ r.containerTag = tag
  /\ reply'.op = "search"
  /\ reply'.success
  /\ reply'.arg = tag
  /\ reply'.query = c

\* the new memory is the first result and reaches the threshold
AddedRankedFirst ==
  /\ Len(reply'.items) >= 1
  /\ reply'.items[1].row.id = reply.arg
  /\ reply'.items[1].similarity >= SimilarityThreshold

RandomDraws == 0..1

InitAdd == InitMemory

NextAdd ==
  \/ \E in \in AddInputs, random \in RandomDraws :
       addMemoryWith(in.content, in.containerTag, in.type, random)
  \/ Tick

SpecAdd == InitAdd /\ [][NextAdd]_vars

\* no content is refused for being stored already: a call can succeed
NeverRefusedAsDuplicate ==
  draws < MaxAdds =>
    \A in \in AddInputs :
      ENABLED (\E random \in RandomDraws :
                 addMemoryWith(in.content, in.containerTag, in.type, random)
                   /\ reply'.success)

\* C21: addMemory never fails because the content duplicates a record: whatever
\* the table holds, a call can succeed, and the n records that n stored adds
\* leave have pairwise distinct ids.
C21_DuplicatesStoredUnderDistinctIds ==
  /\ NeverRefusedAsDuplicate
  /\ RowCount(table) = draws
  /\ Cardinality(TableIds) = RowCount(table)

(***************************************************************************)
(* The five operations of LocalMemoryClient on one table                   *)
(***************************************************************************)
InitEngine == InitMemory

NextEngine ==
  \/ \E in \in AddInputs : addMemory(in.content, in.containerTag, in.type)
  \/ \E id \in TableIds \cup {UnknownId} : deleteMemory(id)
  \/ \E tag \in QueryTags, limit \in ListLimits : listMemories(tag, limit)
  \/ \E query \in Queries, tag \in QueryTags : searchMemories(query, tag)
  \/ \E tag \in QueryTags : getProfile(tag)

SpecEngine == InitEngine /\ [][NextEngine]_vars

EngineOps == {"add", "delete", "search", "list", "profile"}

\* C22: no operation of LocalMemoryClient propagates an exception: a call that
\* fails at connecting, refreshing the table, embedding or querying returns
\* success = false with an error message and an empty payload.
C22_FailuresAreReturned ==
  reply.op \in EngineOps =>
    /\ ~reply.thrown
    /\ ~reply.success =>
         /\ reply.error # ""
         /\ reply.items = << >>
         /\ reply.dynamic = << >>

\* a search that failed, made on a table that holds records of the partition
C22_Witness ==
  /\ reply.op = "search"
  /\ ~reply.success
  /\ reply.error # ""
  /\ Partition(reply.arg) # {}

\* how many rows of the tag's partition have a type that satisfies Test
CountInPartition(tag, Test(_)) ==
  RowCount([r \in { x \in Partition(tag) : Test(x) } |-> table[r]])

AtMost(n, max) == IF n < max THEN n ELSE max

\* C23: getProfile(tag) buckets a scan of the whole partition: static holds the
\* partition's records of type preference, dynamic its other records, each
\* list truncated to the configured maximum; a partition holding at least that
\* maximum of preference records yields a full static list.
C23_ProfileBucketsWholePartition ==
  (reply.op = "profile" /\ reply.success /\ reply.arg \in PlainTags) =>
    /\ \A row \in ResultRows(reply.items) : row \in Partition(reply.arg) /\ IsPreference(row)
    /\ \A row \in ResultRows(reply.dynamic) : row \in Partition(reply.arg) /\ IsDynamic(row)
    /\ Len(reply.items) = AtMost(CountInPartition(reply.arg, IsPreference), MaxProfileItems)
    /\ Len(reply.dynamic) = AtMost(CountInPartition(reply.arg, IsDynamic), MaxProfileItems)

(***************************************************************************)
(* handleSearch                                                            *)
(***************************************************************************)
\* dbQuery.limit(1000)
SearchScanLimit == 1000

\* a call without tag
NoTag == << >>

ApiQueries == Queries \cup {""}
ApiTags == PlainTags \cup {NoTag}
SearchPages == {1, 2}
PageSizes == {1, 2}

\* Math.round((1 - (r._distance || 0)) * 100), the distance counted in tenths
Percent(distance) == (Similarity(distance) * 100) \div Unit

\* array.slice(start, end)
Slice(array, start, end) == SubSeq(array, start + 1, IF Len(array) < end THEN Len(array) ELSE end)

handleSearch(query, tag, page, pageSize) ==
  LET arg == [tag |-> tag, page |-> page, pageSize |-> pageSize] IN
  /\ \/ /\ query = ""
        /\ reply' = Failed("handleSearch", arg)
     \/ /\ query # ""
        /\ reply' = Failed("handleSearch", arg)
     \/ /\ query # ""
        /\ tag # NoTag => ClauseOk(WhereClause("containerTag", tag))
        /\ \E nearest \in NearestOrders(IF tag = NoTag THEN table
                                        ELSE Where(table, WhereClause("containerTag", tag)),
                                        embed(query)) :
             LET allResults == Limit(nearest, SearchScanLimit)
                 sortedResults == SortByCreatedAtDesc(allResults)
                 offset == (page - 1) * pageSize
                 paginatedResults == Slice(sortedResults, offset, offset + pageSize)
                 memories == [i \in 1..Len(paginatedResults) |->
                                Item(paginatedResults[i],
                                     Percent(Distance(embed(query), paginatedResults[i].vector)))]
             IN  reply' = [Reply("handleSearch", arg, TRUE, memories, << >>)
                             EXCEPT !.query = query]
  /\ UNCHANGED <<table, draws, updates, deleted, valVars, embVars, auxVars, svcVars, runVars, toolVars>>

InitApi == InitQuery

NextApi ==
  \E query \in ApiQueries, tag \in ApiTags, page \in SearchPages, pageSize \in PageSizes :
    handleSearch(query, tag, page, pageSize)

SpecApi == InitApi /\ [][NextApi]_vars

\* C24: handleSearch returns a ranked list: in the items of a page similarity
\* is non-increasing from one item to the next.
C24_HandleSearchRanked ==
  (reply.op = "handleSearch" /\ reply.success) =>
    \A i, j \in 1..Len(reply.items) :
      i < j => reply.items[i].similarity >= reply.items[j].similarity

(***************************************************************************)
(* EmbeddingService: warmup, embed, embedWithTimeout                       *)
(***************************************************************************)
\* MAX_CACHE_SIZE, 100 in the source, scaled down
MAX_CACHE_SIZE == 2
\* calls explored for each caller
MaxCallsEach == 2
\* changes of CONFIG explored
MaxChanges == 1

Texts == {"t1", "t2", "t3"}
Models == {"m1", "m2"}

\* the vector a backend computes for the text under the model
VectorOf(text, model) == <<text, model>>

\* this.cache.get(text) is defined
CacheHas(cache, text) == \E i \in 1..Len(cache) : cache[i].text = text

CacheGet(cache, text) == cache[CHOOSE i \in 1..Len(cache) : cache[i].text = text].vector

\* cache.set(text, result) without the eviction before it
CacheSet(cache, text, vector) ==
  IF CacheHas(cache, text)
  THEN [i \in 1..Len(cache) |->
          IF cache[i].text = text THEN [text |-> text, vector |-> vector] ELSE cache[i]]
  ELSE Append(cache, [text |-> text, vector |-> vector])

\* an insertion that never evicts
CacheInsertWithoutEviction(cache, text, vector) == CacheSet(cache, text, vector)

\* an insertion that evicts the newest key of a full cache
CacheInsertEvictsNewest(cache, text, vector) ==
  CacheSet(IF Len(cache) >= MAX_CACHE_SIZE /\ cache # << >>
             THEN SubSeq(cache, 1, Len(cache) - 1) ELSE cache,
           text, vector)

\* the eviction of the first key when the cache has reached its bound, then
\* cache.set(text, result): a key the map holds keeps its position
CacheInsert(cache, text, vector) ==
  CacheSet(IF Len(cache) >= MAX_CACHE_SIZE /\ cache # << >> THEN Tail(cache) ELSE cache,
           text, vector)

\* a model check that clears the cache on every call
ModelCheckedAlwaysClears(svc, cfg) ==
  [svc EXCEPT !.cache = << >>, !.cachedModelName = cfg.embeddingModel]

\* the model check of embed: a cache of another model name is cleared
ModelChecked(svc, cfg) ==
  IF svc.cachedModelName # cfg.embeddingModel
  THEN [svc EXCEPT !.cache = << >>, !.cachedModelName = cfg.embeddingModel]
  ELSE svc

\* a warmup() that does not look for an initialization in flight
WarmupStartsWhenCold(svc) == ~svc.isWarmedUp

\* warmup() starts initializeModel: neither warmed up nor initializing
WarmupStarts(svc) == ~svc.isWarmedUp /\ svc.initPromise = 0

\* embed's own test before it calls warmup()
NeedsWarmup(svc) == ~svc.isWarmedUp /\ svc.initPromise = 0

\* the service after warmup() has run to its return: initializeModel runs to its
\* first await (the pipeline load) or, with an endpoint and a key, to its end
ServiceAfterWarmup(svc, cfg, prs) ==
  IF ~WarmupStarts(svc) THEN svc
  ELSE IF cfg.api THEN [svc EXCEPT !.isWarmedUp = TRUE, !.initPromise = Len(prs) + 1]
  ELSE [svc EXCEPT !.initPromise = Len(prs) + 1]

\* the promises after warmup(): a promise carries the model name given to pipeline
PromisesAfterWarmup(svc, cfg, prs) ==
  IF ~WarmupStarts(svc) THEN prs
  ELSE Append(prs, [status |-> IF cfg.api THEN "resolved" ELSE "pending",
                    model |-> cfg.embeddingModel])

\* the promise warmup() returns, 0 when it returns at once
WarmupReturns(svc, prs) ==
  IF svc.isWarmedUp THEN 0
  ELSE IF svc.initPromise # 0 THEN svc.initPromise
  ELSE Len(prs) + 1

\* a step of the service: kind "return" when an embed call returns a vector to
\* its caller, "other" for every other step
Event(kind, text, vector, hit, changed) ==
  [ kind |-> kind, text |-> text, vector |-> vector, hit |-> hit, changed |-> changed,
    evicted |-> FALSE ]

OtherStep == Event("other", "", << >>, FALSE, FALSE)

\* the call has ended; its locals are gone
Ended(call, outcome, result) ==
  [NoEmbedCall EXCEPT !.pc = "done", !.outcome = outcome, !.calls = call.calls]

\* what the caller is told, unless a timeout told it before
EndEvent(call, outcome, result) ==
  IF call.timedOut \/ outcome \notin {"hit", "miss"} THEN OtherStep
  ELSE Event("return", call.text, result, outcome = "hit", call.changed)

\* embed after its awaits: the backend is chosen by the configuration of the
\* moment; without endpoint and key this.pipe is called, and throws when null
Invokes(call, svc, cfg) ==
  IF cfg.api
  THEN [call EXCEPT !.pc = "backend", !.backend = "remote", !.model = cfg.embeddingModel,
                    !.awaits = 0]
  ELSE IF svc.pipe = "" THEN Ended(call, "error", << >>)
  ELSE [call EXCEPT !.pc = "backend", !.backend = "local", !.model = svc.pipe, !.awaits = 0]

CanCall(c) == embeds[c].pc \in {"idle", "done"} /\ embeds[c].calls < MaxCallsEach

NewCall(c, op, text, timed) ==
  [NoEmbedCall EXCEPT !.op = op, !.text = text, !.timed = timed,
                      !.calls = embeds[c].calls + 1]

embFrame == <<valVars, memVars, svcVars, runVars, toolVars, auxVars>>

\* warmup() called by c
WarmupCall(c) ==
  /\ CanCall(c)
  /\ LET returned == WarmupReturns(service, promises)
         call == NewCall(c, "warmup", "", FALSE)
     IN  /\ service' = ServiceAfterWarmup(service, config, promises)
         /\ promises' = PromisesAfterWarmup(service, config, promises)
         /\ embeds' = [embeds EXCEPT ![c] =
                         IF returned = 0 THEN Ended(call, "ok", << >>)
                         ELSE [call EXCEPT !.pc = "awaitWarmup", !.awaits = returned]]
         /\ lastStep' = OtherStep
  /\ UNCHANGED <<config, backendCalls, changes, embFrame>>

\* embed(text) (timed: through embedWithTimeout) called by c, up to its first
\* await or its return
EmbedCall(c, text, timed) ==
  /\ CanCall(c)
  /\ LET checked == ModelChecked(service, config)
         call == NewCall(c, "embed", text, timed)
     IN  IF CacheHas(checked.cache, text)
         THEN /\ service' = checked
              /\ embeds' = [embeds EXCEPT ![c] =
                              Ended(call, "hit", CacheGet(checked.cache, text))]
              /\ lastStep' = EndEvent(call, "hit", CacheGet(checked.cache, text))
              /\ UNCHANGED <<promises, backendCalls>>
         ELSE IF NeedsWarmup(checked)
         THEN /\ service' = ServiceAfterWarmup(checked, config, promises)
              /\ promises' = PromisesAfterWarmup(checked, config, promises)
              /\ embeds' = [embeds EXCEPT ![c] =
                              [call EXCEPT !.pc = "awaitWarmup",
                                           !.awaits = WarmupReturns(checked, promises)]]
              /\ lastStep' = OtherStep
              /\ UNCHANGED backendCalls
         ELSE IF checked.initPromise # 0
         THEN /\ service' = checked
              /\ embeds' = [embeds EXCEPT ![c] =
                              [call EXCEPT !.pc = "awaitInit", !.awaits = checked.initPromise]]
              /\ lastStep' = OtherStep
              /\ UNCHANGED <<promises, backendCalls>>
         ELSE /\ service' = checked
              /\ embeds' = [embeds EXCEPT ![c] = Invokes(call, checked, config)]
              /\ backendCalls' = IF embeds'[c].pc = "backend" THEN backendCalls + 1
                                 ELSE backendCalls
              /\ lastStep' = IF embeds'[c].pc = "backend" THEN OtherStep
                             ELSE EndEvent(call, "error", << >>)
              /\ UNCHANGED promises
  /\ UNCHANGED <<config, changes, embFrame>>

\* the promise c awaits has settled and c runs on
AwaitResumes(c) ==
  /\ embeds[c].pc \in {"awaitWarmup", "awaitInit"}
  /\ promises[embeds[c].awaits].status # "pending"
  /\ LET call == embeds[c] IN
     IF promises[call.awaits].status = "rejected"
     THEN /\ embeds' = [embeds EXCEPT ![c] = Ended(call, "error", << >>)]
          /\ lastStep' = EndEvent(call, "error", << >>)
          /\ UNCHANGED backendCalls
     ELSE IF call.op = "warmup"
     THEN /\ embeds' = [embeds EXCEPT ![c] = Ended(call, "ok", << >>)]
          /\ lastStep' = OtherStep
          /\ UNCHANGED backendCalls
     ELSE IF call.pc = "awaitWarmup" /\ service.initPromise # 0
     THEN /\ embeds' = [embeds EXCEPT ![c] =
                          [call EXCEPT !.pc = "awaitInit", !.awaits = service.initPromise]]
          /\ lastStep' = OtherStep
          /\ UNCHANGED backendCalls
     ELSE /\ embeds' = [embeds EXCEPT ![c] = Invokes(call, service, config)]
          /\ backendCalls' = IF embeds'[c].pc = "backend" THEN backendCalls + 1
                             ELSE backendCalls
          /\ lastStep' = IF embeds'[c].pc = "backend" THEN OtherStep
                         ELSE EndEvent(call, "error", << >>)
  /\ UNCHANGED <<service, config, promises, changes, embFrame>>

\* the backend call of c settles: the vector is cached and returned, or the
\* call throws
BackendSettles(c, ok) ==
  /\ embeds[c].pc = "backend"
  /\ LET call == embeds[c]
         result == VectorOf(call.text, call.model)
     IN  IF ok
         THEN /\ service' = [service EXCEPT !.cache = CacheInsert(service.cache, call.text, result)]
              /\ embeds' = [embeds EXCEPT ![c] = Ended(call, "miss", result)]
              /\ lastStep' = [EndEvent(call, "miss", result) EXCEPT
                               !.evicted = Len(service.cache) >= MAX_CACHE_SIZE]
         ELSE /\ embeds' = [embeds EXCEPT ![c] = Ended(call, "error", << >>)]
              /\ lastStep' = EndEvent(call, "error", << >>)
              /\ UNCHANGED service
  /\ UNCHANGED <<config, promises, backendCalls, changes, embFrame>>

\* the timer of withTimeout fires first: the caller of embedWithTimeout gets the
\* timeout error, the embed call it raced goes on
Timeout(c) ==
  /\ embeds[c].timed
  /\ ~embeds[c].timedOut
  /\ embeds[c].pc \in {"awaitWarmup", "awaitInit", "backend"}
  /\ embeds' = [embeds EXCEPT ![c].timedOut = TRUE]
  /\ lastStep' = OtherStep
  /\ UNCHANGED <<service, config, promises, backendCalls, changes, embFrame>>

\* the pipeline load of initializeModel settles
InitSettles(ok) ==
  /\ \E p \in 1..Len(promises) :
       /\ promises[p].status = "pending"
       /\ IF ok
          THEN /\ service' = [service EXCEPT !.pipe = promises[p].model, !.isWarmedUp = TRUE]
               /\ promises' = [promises EXCEPT ![p].status = "resolved"]
          ELSE /\ service' = [service EXCEPT !.initPromise = 0]
               /\ promises' = [promises EXCEPT ![p].status = "rejected"]
  /\ lastStep' = OtherStep
  /\ UNCHANGED <<config, embeds, backendCalls, changes, embFrame>>

InFlightCall(call) == call.pc \in {"awaitWarmup", "awaitInit", "backend"}

\* CONFIG.embeddingModel is changed
ChangeModel(model) ==
  /\ changes < MaxChanges
  /\ model # config.embeddingModel
  /\ config' = [config EXCEPT !.embeddingModel = model]
  /\ embeds' = [c \in Callers |->
                  IF InFlightCall(embeds[c]) THEN [embeds[c] EXCEPT !.changed = TRUE]
                  ELSE embeds[c]]
  /\ changes' = changes + 1
  /\ lastStep' = OtherStep
  /\ UNCHANGED <<service, promises, backendCalls, embFrame>>

\* CONFIG.embeddingApiUrl and CONFIG.embeddingApiKey are set or unset
ChangeApi ==
  /\ changes < MaxChanges
  /\ config' = [config EXCEPT !.api = ~config.api]
  /\ changes' = changes + 1
  /\ lastStep' = OtherStep
  /\ UNCHANGED <<service, promises, embeds, backendCalls, embFrame>>

InitEmbedding ==
  /\ service = NewService
  /\ config \in [embeddingModel : {"m1"}, api : BOOLEAN]
  /\ promises = << >>
  /\ embeds = [c \in Callers |-> NoEmbedCall]
  /\ backendCalls = 0
  /\ lastStep = NoEvent
  /\ changes = 0
  /\ ValidatorIdle
  /\ MemoryIdle
  /\ AuxIdle
  /\ ToolIdle
  /\ CaptureIdle

NextEmbedding ==
  \/ \E c \in Callers : WarmupCall(c)
  \/ \E c \in Callers, text \in Texts, timed \in BOOLEAN : EmbedCall(c, text, timed)
  \/ \E c \in Callers : AwaitResumes(c)
  \/ \E c \in Callers, ok \in BOOLEAN : BackendSettles(c, ok)
  \/ \E c \in Callers : Timeout(c)
  \/ \E ok \in BOOLEAN : InitSettles(ok)
  \/ \E model \in Models : ChangeModel(model)
  \/ ChangeApi

SpecEmbedding == InitEmbedding /\ [][NextEmbedding]_vars

(***************************************************************************)
(* Claims about the embedding service                                      *)
(***************************************************************************)
Pending == { p \in 1..Len(promises) : promises[p].status = "pending" }

Waiting == { c \in Callers : embeds[c].pc \in {"awaitWarmup", "awaitInit"} }

\* C25: warm-up coalesces concurrent callers: at most one initialization is in
\* flight, it is the one initPromise holds, every warmup or embed call that
\* waits for a pending initialization waits for that one, and no embed call
\* reaches a backend before the service is warmed up.
C25_WarmupCoalesces ==
  /\ Cardinality(Pending) <= 1
  /\ \A p \in Pending : service.initPromise = p
  /\ \A c \in Waiting :
       promises[embeds[c].awaits].status = "pending" => embeds[c].awaits = service.initPromise
  /\ \A c \in Callers : embeds[c].pc = "backend" => service.isWarmedUp

\* a warmup call and an embed call wait for the one pending initialization
C25_Witness ==
  /\ Pending = {1}
  /\ \E c, d \in Waiting :
       /\ embeds[c].op = "warmup"
       /\ embeds[d].op = "embed"
       /\ embeds[c].awaits = 1
       /\ embeds[d].awaits = 1

\* the backend warm-up selected: the local pipeline when it loaded one
WarmBackend == IF service.pipe # "" THEN "local" ELSE "remote"

\* C26: the backend is selected once at warm-up and never mixed: every embed
\* call that reaches a backend uses the backend chosen at warm-up, even when
\* the endpoint/key configuration changes afterwards.
C26_BackendFixedAtWarmup ==
  \A c \in Callers : embeds[c].pc = "backend" => embeds[c].backend = WarmBackend

\* C27: when embed(t) is called right after an embed(t) call returned, the
\* configured model unchanged since that call began, the second call returns
\* the same vector from the cache with no backend invocation.
C27_SecondCallIsCacheHit ==
  [][ \A c \in Callers, timed \in BOOLEAN :
        (lastStep.kind = "return" /\ ~lastStep.changed
           /\ EmbedCall(c, lastStep.text, timed)) =>
          /\ lastStep'.kind = "return"
          /\ lastStep'.hit
          /\ lastStep'.vector = lastStep.vector
          /\ backendCalls' = backendCalls ]_vars

\* an embed call has just returned from the cache what the one backend
\* invocation so far computed
C27_Witness ==
  /\ lastStep.kind = "return"
  /\ lastStep.hit
  /\ backendCalls = 1
  /\ changes = 0
  /\ \E c \in Callers : embeds[c].calls = 2

\* C28: in every reachable state the embedding cache holds at most
\* MAX_CACHE_SIZE entries.
C28_CacheBounded == Len(service.cache) <= MAX_CACHE_SIZE

\* the call that just returned found the cache at its bound, evicted the first
\* key and inserted its vector as the newest entry
C28_Witness ==
  /\ lastStep.kind = "return"
  /\ lastStep.evicted
  /\ Len(service.cache) = MAX_CACHE_SIZE
  /\ service.cache[MAX_CACHE_SIZE].text = lastStep.text

\* C29: the cache is model-scoped: no embed call returns as a cache hit a
\* vector that was computed under a model name other than the current one.
C29_HitsAreOfCurrentModel ==
  (lastStep.kind = "return" /\ lastStep.hit) => lastStep.vector[2] = config.embeddingModel

\* C30: an embedding call whose timeout fires fails with the timeout error
\* without a retry, and is cancelled: once the timeout error is returned the
\* abandoned call changes the cache no more.
C30_TimedOutCallIsCancelled ==
  [][ \A c \in Callers :
        /\ Timeout(c) => (embeds'[c].timedOut /\ backendCalls' = backendCalls)
        /\ (embeds[c].timedOut /\ embeds'[c] # embeds[c]) =>
             service'.cache = service.cache ]_vars

(***************************************************************************)
(* Claims about the session buffers                                        *)
(***************************************************************************)
\* the buffer a recording method works on: the session's own, or the one it
\* creates on first use
BufferBefore(s) == IF HasBuffer(s) THEN buffers[s] ELSE NewBuffer(s, now)

\* the step was a no-op when disabled, and left s with the buffer after otherwise
Recorded(s, after) ==
  IF ~enabled
    THEN buffers' = buffers
    ELSE /\ DOMAIN buffers' = DOMAIN buffers \cup {s}
         /\ buffers'[s] = after

\* C31: while disabled, addMessage, addTool and onFileEdit create no buffer and
\* change none; while enabled each creates the session's buffer on first use
\* and appends to it: messages and tools at the end, in call order, fileEdits
\* by one.
C31_RecordingOnlyWhileEnabled ==
  [][ \A s \in Sessions :
        /\ \A role \in Roles, content \in Contents :
             addMessage(s, role, content) =>
               Recorded(s, [BufferBefore(s) EXCEPT
                              !.messages = BufferBefore(s).messages \o
                                             <<[role |-> role, content |-> content]>>])
        /\ \A name \in ToolNames :
             addTool(s, name) =>
               Recorded(s, [BufferBefore(s) EXCEPT
                              !.tools = BufferBefore(s).tools \o <<[name |-> name]>>])
        /\ onFileEdit(s) =>
             Recorded(s, [BufferBefore(s) EXCEPT
                            !.fileEdits = BufferBefore(s).fileEdits + 1]) ]_vars

\* C31 witness: the service was disabled after s1 recorded a user message and
\* then an assistant message, and s2, which recorded a tool and a file edit,
\* has its buffer too
C31_Witness ==
  /\ ~enabled
  /\ HasBuffer("s1")
  /\ [i \in 1..Len(buffers["s1"].messages) |-> buffers["s1"].messages[i].role]
       = <<"user", "assistant">>
  /\ HasBuffer("s2")
  /\ Len(buffers["s2"].tools) = 1
  /\ buffers["s2"].fileEdits = 1

\* s is not capturing in c, and its buffer in b, if any, is empty
Cleared(b, c, s) ==
  /\ s \notin c
  /\ s \in DOMAIN b =>
       /\ b[s].iterationCount = 0
       /\ b[s].messages = << >>
       /\ b[s].tools = << >>
       /\ b[s].fileEdits = 0

\* C32: clearBuffer(s) leaves s not capturing and any buffer of s with
\* iterationCount 0, no messages, no tools and fileEdits 0; called on a session
\* already in that condition it changes nothing but the buffer's lastCaptureTime.
C32_ClearBufferResets ==
  [][ \A s \in Sessions :
        ClearBuffer(s) =>
          /\ Cleared(buffers', capturing', s)
          /\ DOMAIN buffers' = DOMAIN buffers
          /\ Cleared(buffers, capturing, s) =>
               /\ capturing' = capturing
               /\ \A x \in DOMAIN buffers :
                    [buffers'[x] EXCEPT !.lastCaptureTime = buffers[x].lastCaptureTime]
                      = buffers[x] ]_vars

\* C32 witness: s1's buffer is empty and stamped with the current time after
\* the clock advanced, s1 is not capturing, while s2 still holds a full buffer
\* and its capturing flag
C32_Witness ==
  /\ now = 1
  /\ HasBuffer("s1")
  /\ Cleared(buffers, capturing, "s1")
  /\ buffers["s1"].lastCaptureTime = now
  /\ HasBuffer("s2")
  /\ ActivityCount(buffers["s2"]) = MaxBuffered
  /\ "s2" \in capturing

\* the step left the buffer and the capturing flag of session x as they were
Untouched(x) ==
  /\ x \in DOMAIN buffers' <=> x \in DOMAIN buffers
  /\ x \in DOMAIN buffers => buffers'[x] = buffers[x]
  /\ x \in capturing' <=> x \in capturing

\* a call of one of the per-session methods for session s
MethodOf(s) ==
  \/ \E role \in Roles, content \in Contents : addMessage(s, role, content)
  \/ \E name \in ToolNames : addTool(s, name)
  \/ onFileEdit(s)
  \/ OnSessionIdleCall(s)
  \/ MarkCapturing(s)
  \/ ClearBuffer(s)
  \/ Cleanup(s)

\* C33: addMessage, addTool, onFileEdit, onSessionIdle, markCapturing,
\* clearBuffer and cleanup called for one session leave the buffer and the
\* capturing flag of every other session unchanged.
C33_NoCrossSessionInterference ==
  [][ \A a \in Sessions :
        MethodOf(a) => \A b \in Sessions \ {a} : Untouched(b) ]_vars

\* C33 witness: s2 was cleaned up at time 1 while s1 keeps the full buffer it
\* filled at time 0 and its capturing flag
C33_Witness ==
  /\ now = 1
  /\ ~HasBuffer("s2")
  /\ "s2" \notin capturing
  /\ HasBuffer("s1")
  /\ buffers["s1"].lastCaptureTime = 0
  /\ Len(buffers["s1"].messages) = MaxBuffered
  /\ buffers["s1"].iterationCount > 0
  /\ "s1" \in capturing

(***************************************************************************)
(* Items recorded while a capture attempt is in flight                     *)
(***************************************************************************)
\* a performAutoCapture run of session s has built its prompt and not finished
PromptBuilt(s) ==
  \E r \in Runs :
    /\ runs[r].session = s
    /\ runs[r].pc \in {"awaitModel", "save", "toast2", "toastErr"}

\* addMessage and addTool called while a run of s is past getSummaryPrompt; the
\* item is marked so that the prompts can be searched for it
LateMessage(s, role) ==
  /\ PromptBuilt(s)
  /\ BufferRoom(s)
  /\ addMessage(s, role, LateContent)
  /\ UNCHANGED <<mode, maxMemories, runs, store>>

LateTool(s) ==
  /\ PromptBuilt(s)
  /\ BufferRoom(s)
  /\ addTool(s, LateContent)
  /\ UNCHANGED <<mode, maxMemories, runs, store>>

NextInFlight ==
  \/ NextCaptureOf({"s1"})
  \/ \E role \in Roles : LateMessage("s1", role)
  \/ LateTool("s1")

SpecInFlight == InitCapture /\ [][NextInFlight]_vars

\* C38: a message or tool entry added to a session's buffer while a capture
\* attempt of the session is in flight, after the attempt built its prompt, is
\* never included in any extraction prompt.
C38_LateItemsNeverPrompted == \A r \in Runs : ~runs[r].late

\* the keys of the cache, earliest inserted first
CacheKeys(cache) == [i \in 1..Len(cache) |-> cache[i].text]

\* C35: eviction is first-in first-out, not least-recently-used: a miss whose
\* vector is stored into a full cache evicts the entry inserted earliest among
\* those present and no other, and a cache hit leaves the cache, and with it
\* the eviction order, unchanged.
C35_EvictionIsFifo ==
  [][ \A c \in Callers :
        /\ ( /\ embeds[c].pc = "backend"
             /\ embeds'[c].outcome = "miss"
             /\ Len(service.cache) >= MAX_CACHE_SIZE ) =>
             LET text == embeds[c].text
                 kept == Tail(CacheKeys(service.cache))
             IN  CacheKeys(service'.cache) =
                   IF \E i \in 1..Len(kept) : kept[i] = text THEN kept
                   ELSE kept \o <<text>>
        /\ ( /\ embeds'[c].calls = embeds[c].calls + 1
             /\ embeds'[c].outcome = "hit" ) =>
             CacheKeys(service'.cache) = CacheKeys(service.cache) ]_vars

\* C35 witness: three misses were stored, the cache was full when the last one,
\* on t3, returned, and it evicted the earliest key and kept t2
C35_Witness ==
  /\ lastStep.kind = "return"
  /\ lastStep.evicted
  /\ lastStep.text = "t3"
  /\ CacheKeys(service.cache) = <<"t2", "t3">>
  /\ backendCalls = 3
  /\ changes = 0
  /\ \A c \in Callers : embeds[c].outcome = "miss"

(***************************************************************************)
(* LocalMemoryClient.initialize                                            *)
(***************************************************************************)
\* initialize calls of one caller
MaxInitCalls == 2

\* how the body of the memoized async function fares up to its first await
\* (connect): existsSync and mkdirSync run synchronously and may throw
SyncOutcomes == {"suspends", "throws"}

\* this.initPromise = (async () => { try { ... } catch { this.initPromise = null;
\* throw } })(): the function runs to its first await, or to the throw of its
\* catch block, before the assignment stores the promise it returned
MemoAfterStart(cl, prs, sync) == [cl EXCEPT !.initPromise = Len(prs) + 1]

PromisesAfterStart(prs, sync) ==
  Append(prs, [status |-> IF sync = "throws" THEN "rejected" ELSE "pending"])

CanInitialize(w) == waits[w].pc \in {"idle", "done"} /\ waits[w].calls < MaxInitCalls

\* initialize() called by w, up to its return; the caller awaits what it returns
InitializeCall(w, sync) ==
  /\ CanInitialize(w)
  /\ LET call == [NoWait EXCEPT !.calls = waits[w].calls + 1] IN
     IF client.isConnected
     THEN /\ waits' = [waits EXCEPT ![w] = [call EXCEPT !.pc = "done", !.outcome = "ok"]]
          /\ UNCHANGED <<client, inits>>
     ELSE IF client.initPromise # 0
     THEN /\ waits' = [waits EXCEPT ![w] = [call EXCEPT !.pc = "await",
                                                        !.awaits = client.initPromise]]
          /\ UNCHANGED <<client, inits>>
     ELSE /\ client' = MemoAfterStart(client, inits, sync)
          /\ inits' = PromisesAfterStart(inits, sync)
          /\ waits' = [waits EXCEPT ![w] = [call EXCEPT !.pc = "await",
                                                        !.awaits = Len(inits) + 1]]
  /\ UNCHANGED <<connVars, valVars, memVars, embVars, svcVars, runVars, toolVars>>

\* the awaits of the body (connect, tableNames, openTable or createEmptyTable)
\* settle: the body ends with isConnected = true, or its catch block resets the
\* memo and rethrows
InitializeSettles(ok) ==
  /\ \E p \in 1..Len(inits) :
       /\ inits[p].status = "pending"
       /\ IF ok
          THEN /\ client' = [client EXCEPT !.isConnected = TRUE]
               /\ inits' = [inits EXCEPT ![p].status = "resolved"]
          ELSE /\ client' = [client EXCEPT !.initPromise = 0]
               /\ inits' = [inits EXCEPT ![p].status = "rejected"]
  /\ UNCHANGED <<waits, connVars, valVars, memVars, embVars, svcVars, runVars, toolVars>>

\* the caller's await of the returned promise resumes
WaitResumes(w) ==
  /\ waits[w].pc = "await"
  /\ inits[waits[w].awaits].status # "pending"
  /\ waits' = [waits EXCEPT ![w] =
                 [@ EXCEPT !.pc = "done", !.awaits = 0,
                           !.outcome = IF inits[waits[w].awaits].status = "resolved"
                                         THEN "ok" ELSE "error"]]
  /\ UNCHANGED <<client, inits, connVars, valVars, memVars, embVars, svcVars, runVars, toolVars>>

InitInitialize ==
  /\ ClientIdle
  /\ ConnectionsIdle
  /\ ValidatorIdle
  /\ MemoryIdle
  /\ EmbeddingIdle
  /\ ToolIdle
  /\ CaptureIdle

NextInitialize ==
  \/ \E w \in Waiters, sync \in SyncOutcomes : InitializeCall(w, sync)
  \/ \E ok \in BOOLEAN : InitializeSettles(ok)
  \/ \E w \in Waiters : WaitResumes(w)

SpecInitialize == InitInitialize /\ [][NextInitialize]_vars

\* C34: warm-up is re-armed by failure: after an initialization attempt has
\* failed, before or after its first suspension point, the pending-initialization
\* memo no longer holds the failed attempt, so that the next call starts a new
\* initialization instead of being handed the failed one.
C34_FailureRearms ==
  client.initPromise # 0 => inits[client.initPromise].status # "rejected"

(***************************************************************************)
(* Claims about the violations validate reports                            *)
(***************************************************************************)
\* the violations of the collection fields of d that validate examines
CollectionViolations(d) ==
  (IF Truthy(Get(d, "preferences")) THEN validatePreferences(Get(d, "preferences")) ELSE << >>)
  \o (IF Truthy(Get(d, "patterns")) THEN validatePatterns(Get(d, "patterns")) ELSE << >>)
  \o (IF Truthy(Get(d, "workflows")) THEN validateWorkflows(Get(d, "workflows")) ELSE << >>)

Reported(violation) ==
  \E i \in 1..Len(validation.errors) : validation.errors[i] = violation

\* C36: validation collects all violations before failing: the result of
\* validate for an object with fields lists every null or undefined top-level
\* field and every violation of its collection fields, also when a null field
\* occurs together with invalid elements of a collection field.
C36_AllViolationsCollected ==
  (validation.called /\ data.t = "object" /\ DOMAIN data.f # {}) =>
    LET nulls == NullFieldErrors(data, Keys(data), 1)
        others == CollectionViolations(data)
    IN  /\ \A i \in 1..Len(nulls) : Reported(nulls[i])
        /\ \A i \in 1..Len(others) : Reported(others[i])

(***************************************************************************)
(* Claims about the persisted message history                              *)
(***************************************************************************)
IsPrefixOf(s, t) == Len(s) <= Len(t) /\ SubSeq(t, 1, Len(s)) = s

\* the history msgs, stored under the sequence numbers seqs, holds the system
\* prompt once, as its first message, then user and assistant turns only, and
\* its sequence numbers increase strictly
HistoryInOrder(msgs, seqs) ==
  /\ Len(seqs) = Len(msgs)
  /\ msgs # << >> => msgs[1] = SystemMsg
  /\ \A i \in 2..Len(msgs) : msgs[i].role \in {"user", "assistant"}
  /\ \A i \in 2..Len(seqs) : seqs[i - 1] < seqs[i]

C39_IdsUnique == \A id \in TableIds : RowsWithId(table, id) <= 1

(***************************************************************************)
(* ConnectionManager                                                       *)
(***************************************************************************)
\* Database objects created in one behaviour
MaxDatabases == 3

Paths == {"p1", "p2"}

\* how getConnection fares for a path it has not registered: it returns the
\* new Database, or mkdirSync or new Database throws (nothing was opened), or
\* initDatabase throws (a pragma or sqliteVec.load: the Database is open)
OpenOutcomes == {"ok", "openFails", "initFails"}

\* how closing one Database fares: the checkpoint and close() succeed, or the
\* checkpoint throws and close() is not reached
CloseOutcomes == {"ok", "checkpointFails"}

Registered(p) == p \in DOMAIN connections

\* the Database objects that are open on path p
LiveOn(p) == { i \in 1..Len(dbs) : dbs[i].path = p /\ dbs[i].open }

\* getConnection(dbPath)
getConnection(dbPath, outcome) ==
  /\ IF Registered(dbPath)
     THEN /\ handle' = connections[dbPath]
          /\ UNCHANGED <<connections, dbs>>
     ELSE /\ Len(dbs) < MaxDatabases
          /\ IF outcome = "openFails"
             THEN /\ handle' = NoHandle
                  /\ UNCHANGED <<connections, dbs>>
             ELSE /\ dbs' = Append(dbs, [path |-> dbPath, open |-> TRUE])
                  /\ IF outcome = "initFails"
                     THEN /\ handle' = NoHandle
                          /\ UNCHANGED connections
                     ELSE /\ connections' = connections @@ (dbPath :> Len(dbs) + 1)
                          /\ handle' = Len(dbs) + 1
  /\ UNCHANGED <<cliVars, valVars, memVars, embVars, svcVars, runVars, toolVars>>

\* closeConnection(dbPath): a throw of the checkpoint leaves the function
\* before close() and before the registry entry is deleted
closeConnection(dbPath, outcome) ==
  /\ IF Registered(dbPath) /\ outcome = "ok"
     THEN /\ dbs' = [dbs EXCEPT ![connections[dbPath]].open = FALSE]
          /\ connections' = [p \in DOMAIN connections \ {dbPath} |-> connections[p]]
     ELSE UNCHANGED <<connections, dbs>>
  /\ UNCHANGED <<handle, cliVars, valVars, memVars, embVars, svcVars, runVars, toolVars>>

\* closeAll(): the checkpoint of the connections of the paths in failing
\* throws; the catch block logs it and the loop goes on; then the registry is
\* cleared
closeAll(failing) ==
  /\ dbs' = [i \in 1..Len(dbs) |->
               IF \E p \in DOMAIN connections \ failing : connections[p] = i
               THEN [dbs[i] EXCEPT !.open = FALSE] ELSE dbs[i]]
  /\ connections' = << >>
  /\ UNCHANGED <<handle, cliVars, valVars, memVars, embVars, svcVars, runVars, toolVars>>

InitConnections ==
  /\ ConnectionsIdle
  /\ ClientIdle
  /\ ValidatorIdle
  /\ MemoryIdle
  /\ EmbeddingIdle
  /\ ToolIdle
  /\ CaptureIdle

NextConnections ==
  \/ \E p \in Paths, outcome \in OpenOutcomes : getConnection(p, outcome)
  \/ \E p \in Paths, outcome \in CloseOutcomes : closeConnection(p, outcome)
  \/ \E failing \in SUBSET Paths : closeAll(failing)

SpecConnections == InitConnections /\ [][NextConnections]_vars

\* C40: the ConnectionManager keeps exactly one live connection per database
\* path: a path has at most one open Database, the registered one, which
\* getConnection returns on every call until the path is closed; no path is
\* registered after closeConnection or closeAll.
C40_OneLiveConnectionPerPath ==
  \A p \in Paths :
    /\ Cardinality(LiveOn(p)) <= 1
    /\ Registered(p) => LiveOn(p) = {connections[p]}
    /\ ~Registered(p) => LiveOn(p) = {}

====
